---- MODULE Spec2Model ----
(***************************************************************************)
(* Turn-queue state machine of the arcade queueing service (src/main.py).  *)
(* The state is the in-memory table `games` plus the process-wide pause    *)
(* flag, the courtesy cooldown ledger and the wall clock.  Every request   *)
(* handler runs its critical section under the single asyncio lock, so     *)
(* each handler is one atomic action.                                      *)
(***************************************************************************)
EXTENDS Integers, Sequences, FiniteSets, TLC

\* ---------------------------------------------------------------- bounds
NumGames == 2        \* games of the table in Spec and SpecStep
NumPlayers == 3      \* players sending requests
MaxTicks == 2        \* the clock stops at MaxTicks timeouts
MaxSteps == 5        \* state-changing requests and clock steps of one run
NumScanGames == 3    \* games of the table in SpecAdvance
MaxStepQueue == 2    \* queue length of the pre-states of SpecStep
NumScanPlayers == 4  \* players queued in the pre-states of SpecAdvance
NumPlayPlayers == 2  \* players of SpecPlay
MaxPlaySteps == 9    \* state-changing requests and clock steps of one play run
MaxCooldownQueue == 1  \* queue length of the pre-states of SpecCooldown
NumRequests == 2     \* requests in flight at once in SpecLock
MaxLockSteps == 12   \* steps of the requests of one run of SpecLock
MaxRestartSteps == 6  \* requests, clock steps and restarts of one run of SpecRestart
MaxGachaSteps == 10  \* state-changing requests and clock steps of one run of SpecGacha
MaxGachaPulls == 2   \* pulls of play time the clock of SpecGacha can reach
MaxSwapQueue == 3     \* longest queue in the pre-states of SpecSwap
MaxCreditSteps == 6  \* state-changing requests and clock steps of one run of SpecCredit
MaxWindowSteps == 7  \* state-changing requests and clock steps of one run of SpecWindow
MaxSkipCount == 1    \* highest skip count told apart in SpecStarve
NumStarveGames == 1  \* games of the table in SpecStarve
MaxLogoutSteps == 9  \* steps of the requests of one run of SpecLogout

\* ------------------------------------------------------------- constants
\* src/config.py
GAME_NAMES == <<"Maimai", "Chunithm", "Wacca", "Sound Voltex">>
TURN_TIMEOUT_SECONDS == 60
COURTESY_COOLDOWN_SECONDS == 10
GACHA_MINUTES_PER_PULL == 15

\* The names of the first n configured games.
FirstGames(n) == {GAME_NAMES[i] : i \in 1..n}

\* games.values(): the games of a table G in the order of GAME_NAMES, the
\* insertion order of the dict.
GameOrder(G) == SelectSeq(GAME_NAMES, LAMBDA n : n \in DOMAIN G)

\* User names that take part as players, and the reserved administrator.
PlayerNames == <<"A", "B", "C", "D", "E">>
Players == {PlayerNames[i] : i \in 1..NumPlayers}
ScanPlayers == {PlayerNames[i] : i \in 1..NumScanPlayers}
PlayPlayers == {PlayerNames[i] : i \in 1..NumPlayPlayers}

\* The clock advances between requests by half a timeout or a whole one, so
\* that elapsed times below, at and above the timeout boundary all occur.
TickSteps == {TURN_TIMEOUT_SECONDS \div 2, TURN_TIMEOUT_SECONDS}
MaxTime == MaxTicks * TURN_TIMEOUT_SECONDS

\* Optional values: None, or a one-element tuple holding the value.
None == <<>>
Some(x) == <<x>>
Val(o) == o[1]

\* Python dicts keyed by player: functions whose domain is the set of keys.
EmptyDict == <<>>
DictGet(d, k, default) == IF k \in DOMAIN d THEN d[k] ELSE default
DictPut(d, k, v) == [x \in (DOMAIN d) \cup {k} |-> IF x = k THEN v ELSE d[x]]
DictPop(d, k) == [x \in (DOMAIN d) \ {k} |-> d[x]]

VARIABLES
    games,               \* game name -> Game record
    queue_paused,        \* process-wide pause flag
    pause_started_at,    \* Optional timestamp
    courtesy_cooldowns,  \* (player, game) -> cooldown_ends_at
    gacha_pulls_given,   \* player -> total pulls awarded
    now,                 \* time.time()
    lastOp,              \* the handler that ran last, with its arguments (an
                         \* accept also with the skip count it found)
    steps,               \* number of steps taken
    pre,                 \* single-step runs: the table before the request
    hist                 \* play runs: when each turn was accepted, time paused since

vars == <<games, queue_paused, pause_started_at, courtesy_cooldowns,
          gacha_pulls_given, now, lastOp, steps, pre, hist>>

\* dataclass Game
Game(name) ==
    [name |-> name,
     queue |-> <<>>,
     now_playing |-> None,
     turn_started_at |-> None,
     turn_accepted |-> FALSE,
     play_started_at |-> None,
     skip_counts |-> EmptyDict,
     total_play_time |-> EmptyDict,
     session_counts |-> EmptyDict,
     play_time_offset |-> EmptyDict]

\* ------------------------------------------------------- sequence helpers
InQueue(q, p) == \E i \in 1..Len(q) : q[i] = p

\* list.index(p): position of the first occurrence
IndexOf(q, p) == CHOOSE i \in 1..Len(q) : q[i] = p /\ \A j \in 1..(i - 1) : q[j] # p

\* list.remove(p): removes the first occurrence
ListRemove(q, p) ==
    LET i == IndexOf(q, p) IN SubSeq(q, 1, i - 1) \o SubSeq(q, i + 1, Len(q))

\* list.insert(0, p)
InsertFront(q, p) == <<p>> \o q

\* ------------------------------------------------------ availability oracle
RECURSIVE find_playing(_, _, _)
find_playing(G, player, order) ==
    IF order = <<>> THEN None
    ELSE IF G[Head(order)].now_playing = Some(player) THEN Some(G[Head(order)].name)
    ELSE find_playing(G, player, Tail(order))

\* an oracle that overlooks the occupants
get_player_playing_game_blind(G, player) == None

get_player_playing_game(G, player) == find_playing(G, player, GameOrder(G))

\* ------------------------------------------------------ queue advancement
\* a scan that forgets the players it passed over
reinsert_skipped_drop(queue, skipped) == queue

\* a scan that re-inserts without reversed()
RECURSIVE reinsert_skipped_forward(_, _)
reinsert_skipped_forward(queue, skipped) ==
    IF skipped = <<>> THEN queue
    ELSE reinsert_skipped_forward(InsertFront(queue, Head(skipped)), Tail(skipped))

\* for player in reversed(skipped): game.queue.insert(0, player)
RECURSIVE reinsert_skipped(_, _)
reinsert_skipped(queue, skipped) ==
    IF skipped = <<>> THEN queue
    ELSE reinsert_skipped(InsertFront(queue, skipped[Len(skipped)]),
                          SubSeq(skipped, 1, Len(skipped) - 1))

\* the while loop of advance_game; G already has g's occupant cleared
RECURSIVE advance_scan(_, _, _, _)
advance_scan(G, g, queue, skipped) ==
    IF queue = <<>>
    THEN [G EXCEPT ![g].queue = reinsert_skipped(<<>>, skipped)]
    ELSE LET candidate == Head(queue) IN
         IF get_player_playing_game(G, candidate) = None
         THEN [G EXCEPT ![g].now_playing = Some(candidate),
                        ![g].turn_started_at = Some(now),
                        ![g].turn_accepted = FALSE,
                        ![g].play_started_at = None,
                        ![g].queue = reinsert_skipped(Tail(queue), skipped)]
         ELSE advance_scan(G, g, Tail(queue), Append(skipped, candidate))

\* an advancement that overlooks the pause flag
advance_game_unpaused(G, g) ==
    LET cleared == [G EXCEPT ![g].now_playing = None,
                             ![g].turn_started_at = None,
                             ![g].turn_accepted = FALSE,
                             ![g].play_started_at = None]
    IN advance_scan(cleared, g, G[g].queue, <<>>)

\* an advancement that clears the occupant and keeps the turn fields
advance_game_keep_flags(G, g) ==
    IF queue_paused THEN G
    ELSE advance_scan([G EXCEPT ![g].now_playing = None], g, G[g].queue, <<>>)

advance_game(G, g) ==
    IF queue_paused THEN G
    ELSE LET cleared == [G EXCEPT ![g].now_playing = None,
                                  ![g].turn_started_at = None,
                                  ![g].turn_accepted = FALSE,
                                  ![g].play_started_at = None]
         IN advance_scan(cleared, g, G[g].queue, <<>>)

\* for other_game in games.values(): if other_game.name != game.name and
\* other_game.now_playing is None: advance_game(other_game)
RECURSIVE advance_others_in(_, _, _)
advance_others_in(G, g, order) ==
    IF order = <<>> THEN G
    ELSE LET other == Head(order) IN
         IF other # g /\ G[other].now_playing = None
         THEN advance_others_in(advance_game(G, other), g, Tail(order))
         ELSE advance_others_in(G, g, Tail(order))

\* a finish or skip without the sweep over the other games
advance_others_none(G, g) == G

advance_others(G, g) == advance_others_in(G, g, GameOrder(G))

\* ------------------------------------------------------ skip / timeout
has_available_player_in_queue(G, g) ==
    \E i \in 1..Len(G[g].queue) : get_player_playing_game(G, G[g].queue[i]) = None

skip_current_player(G, g) ==
    IF G[g].now_playing = None THEN G
    ELSE LET skipped_player == Val(G[g].now_playing)
             resolved ==
                 IF has_available_player_in_queue(G, g)
                 THEN LET counted == [G EXCEPT ![g].skip_counts =
                                         DictPut(@, skipped_player,
                                                 DictGet(@, skipped_player, 0) + 1)]
                          advanced == advance_game(counted, g)
                      IN [advanced EXCEPT ![g].queue = InsertFront(@, skipped_player)]
                 ELSE advance_game([G EXCEPT ![g].skip_counts =
                                        DictPop(@, skipped_player)], g)
         IN advance_others(resolved, g)

\* a timeout test that overlooks turn_accepted
turn_expired_any(G, g) ==
    /\ G[g].now_playing # None
    /\ G[g].turn_started_at # None
    /\ (now - Val(G[g].turn_started_at)) >= TURN_TIMEOUT_SECONDS

turn_expired(G, g) ==
    /\ G[g].now_playing # None
    /\ ~G[g].turn_accepted
    /\ G[g].turn_started_at # None
    /\ (now - Val(G[g].turn_started_at)) >= TURN_TIMEOUT_SECONDS

\* a loop that returns after the first expired turn
RECURSIVE check_expired_first(_, _)
check_expired_first(G, order) ==
    IF order = <<>> THEN G
    ELSE IF turn_expired(G, Head(order))
         THEN skip_current_player(G, Head(order))
         ELSE check_expired_first(G, Tail(order))

\* the loop of check_expired_turns over the games in the given order
RECURSIVE check_expired_in(_, _)
check_expired_in(G, order) ==
    IF order = <<>> THEN G
    ELSE IF turn_expired(G, Head(order))
         THEN check_expired_in(skip_current_player(G, Head(order)), Tail(order))
         ELSE check_expired_in(G, Tail(order))

\* a poll that never looks for expired turns
check_expired_turns_off(G) == G

check_expired_turns(G) ==
    IF queue_paused THEN G ELSE check_expired_in(G, GameOrder(G))

\* ------------------------------------------------------ cooldown ledger
\* get_cooldown_remaining: the value returned, and the ledger after the call
\* a cooldown read that ignores which game the player finished
cooldown_remaining_any_game(cd, player, g) ==
    IF \E k \in DOMAIN cd : k[1] = player /\ cd[k] - now > 0
    THEN CHOOSE r \in {cd[k] - now : k \in {x \in DOMAIN cd : x[1] = player}} : r > 0
    ELSE 0

cooldown_remaining(cd, player, g) ==
    LET key == <<player, g>> IN
    IF key \notin DOMAIN cd THEN 0
    ELSE IF cd[key] - now <= 0 THEN 0 ELSE cd[key] - now

cooldown_after_read(cd, player, g) ==
    LET key == <<player, g>> IN
    IF key \in DOMAIN cd /\ cd[key] - now <= 0
    THEN [k \in (DOMAIN cd) \ {key} |-> cd[k]]
    ELSE cd

\* ------------------------------------------------------ initial state
Init ==
    /\ games = [g \in FirstGames(NumGames) |-> Game(g)]
    /\ queue_paused = FALSE
    /\ pause_started_at = None
    /\ courtesy_cooldowns = <<>>
    /\ gacha_pulls_given = EmptyDict
    /\ now = 0
    /\ lastOp = [op |-> "init"]
    /\ steps = 0
    /\ pre = <<>>
    /\ hist = <<>>

\* ------------------------------------------------------ handlers
\* time passes between requests
Tick(d) ==
    /\ now + d <= MaxTime
    /\ now' = now + d
    /\ UNCHANGED <<games, queue_paused, pause_started_at, courtesy_cooldowns,
                   gacha_pulls_given>>

\* a join that puts the player at the head of the queue
join_game_front(player, g) ==
    /\ IF cooldown_remaining(courtesy_cooldowns, player, g) > 0
       THEN UNCHANGED <<games, courtesy_cooldowns>>
       ELSE /\ courtesy_cooldowns' = cooldown_after_read(courtesy_cooldowns, player, g)
            /\ games' =
                 IF ~InQueue(games[g].queue, player) /\ games[g].now_playing # Some(player)
                 THEN LET appended == [games EXCEPT ![g].queue = InsertFront(@, player)] IN
                      IF appended[g].now_playing = None
                      THEN advance_game(appended, g)
                      ELSE appended
                 ELSE games
    /\ UNCHANGED <<queue_paused, pause_started_at, gacha_pulls_given, now>>

\* POST /join/{game_name}
join_game(player, g) ==
    /\ IF cooldown_remaining(courtesy_cooldowns, player, g) > 0
       THEN UNCHANGED <<games, courtesy_cooldowns>>
       ELSE /\ courtesy_cooldowns' = cooldown_after_read(courtesy_cooldowns, player, g)
            /\ games' =
                 IF ~InQueue(games[g].queue, player) /\ games[g].now_playing # Some(player)
                 THEN LET appended == [games EXCEPT ![g].queue = Append(@, player)] IN
                      IF appended[g].now_playing = None
                      THEN advance_game(appended, g)
                      ELSE appended
                 ELSE games
    /\ UNCHANGED <<queue_paused, pause_started_at, gacha_pulls_given, now>>

\* a leave that treats a pending occupant as a skip
leave_game_as_skip(player, g) ==
    /\ games' =
         IF InQueue(games[g].queue, player)
         THEN [games EXCEPT ![g].queue = ListRemove(@, player)]
         ELSE IF games[g].now_playing = Some(player) /\ ~games[g].turn_accepted
         THEN skip_current_player(games, g)
         ELSE games
    /\ UNCHANGED <<queue_paused, pause_started_at, courtesy_cooldowns,
                   gacha_pulls_given, now>>

\* POST /leave/{game_name}
leave_game(player, g) ==
    /\ games' =
         IF InQueue(games[g].queue, player)
         THEN [games EXCEPT ![g].queue = ListRemove(@, player)]
         ELSE IF games[g].now_playing = Some(player) /\ ~games[g].turn_accepted
         THEN advance_others(advance_game(games, g), g)
         ELSE games
    /\ UNCHANGED <<queue_paused, pause_started_at, courtesy_cooldowns,
                   gacha_pulls_given, now>>

\* a swap that exchanges the two players whichever of them is ahead
swap_places_any(player, g, target_player) ==
    /\ games' =
         IF InQueue(games[g].queue, player) /\ InQueue(games[g].queue, target_player)
         THEN LET my_idx == IndexOf(games[g].queue, player)
                  target_idx == IndexOf(games[g].queue, target_player)
              IN [games EXCEPT ![g].queue =
                     [@ EXCEPT ![my_idx] = games[g].queue[target_idx],
                               ![target_idx] = games[g].queue[my_idx]]]
         ELSE games
    /\ UNCHANGED <<queue_paused, pause_started_at, courtesy_cooldowns,
                   gacha_pulls_given, now>>

\* POST /swap
swap_places(player, g, target_player) ==
    /\ games' =
         IF InQueue(games[g].queue, player) /\ InQueue(games[g].queue, target_player)
         THEN LET my_idx == IndexOf(games[g].queue, player)
                  target_idx == IndexOf(games[g].queue, target_player)
              IN IF target_idx > my_idx
                 THEN [games EXCEPT ![g].queue =
                          [@ EXCEPT ![my_idx] = games[g].queue[target_idx],
                                    ![target_idx] = games[g].queue[my_idx]]]
                 ELSE games
         ELSE games
    /\ UNCHANGED <<queue_paused, pause_started_at, courtesy_cooldowns,
                   gacha_pulls_given, now>>

\* a comparison that admits the boundary itself
turn_in_time_inclusive(elapsed) == elapsed <= TURN_TIMEOUT_SECONDS

\* if elapsed < TURN_TIMEOUT_SECONDS
turn_in_time(elapsed) == elapsed < TURN_TIMEOUT_SECONDS

\* an accept that forgets to start the play clock
accept_update_no_clock(G, g, player) ==
    [G EXCEPT ![g].turn_accepted = TRUE,
              ![g].session_counts = DictPut(@, player, DictGet(@, player, 0) + 1),
              ![g].skip_counts = DictPop(@, player)]

\* an accept that keeps the player's skip count
accept_update_keep_skips(G, g, player) ==
    [G EXCEPT ![g].turn_accepted = TRUE,
              ![g].play_started_at = Some(now),
              ![g].session_counts = DictPut(@, player, DictGet(@, player, 0) + 1)]

\* the assignments of a successful accept
accept_update(G, g, player) ==
    [G EXCEPT ![g].turn_accepted = TRUE,
              ![g].play_started_at = Some(now),
              ![g].session_counts = DictPut(@, player, DictGet(@, player, 0) + 1),
              ![g].skip_counts = DictPop(@, player)]

\* POST /accept/{game_name}
accept_turn(player, g) ==
    /\ games' =
         IF /\ games[g].now_playing = Some(player)
            /\ ~games[g].turn_accepted
            /\ games[g].turn_started_at # None
         THEN LET elapsed == now - Val(games[g].turn_started_at) IN
              IF turn_in_time(elapsed)
              THEN accept_update(games, g, player)
              ELSE games
         ELSE games
    /\ UNCHANGED <<queue_paused, pause_started_at, courtesy_cooldowns,
                   gacha_pulls_given, now>>

\* a skip that does not ask whose turn it is
skip_turn_any(player, g) ==
    /\ games' = skip_current_player(games, g)
    /\ UNCHANGED <<queue_paused, pause_started_at, courtesy_cooldowns,
                   gacha_pulls_given, now>>

\* POST /skip/{game_name}
skip_turn(player, g) ==
    /\ games' =
         IF games[g].now_playing = Some(player) /\ ~games[g].turn_accepted
         THEN skip_current_player(games, g)
         ELSE games
    /\ UNCHANGED <<queue_paused, pause_started_at, courtesy_cooldowns,
                   gacha_pulls_given, now>>

\* sum(g.total_play_time.get(player, 0) for g in games.values())
RECURSIVE sum_play_time_in(_, _, _)
sum_play_time_in(G, player, order) ==
    IF order = <<>> THEN 0
    ELSE DictGet(G[Head(order)].total_play_time, player, 0)
         + sum_play_time_in(G, player, Tail(order))

sum_play_time(G, player) == sum_play_time_in(G, player, GameOrder(G))

\* a credit that overwrites the total instead of adding to it
credit_play_time_overwrite(G, g, player) ==
    IF G[g].play_started_at # None
    THEN [G EXCEPT ![g].total_play_time =
             DictPut(@, player, now - Val(G[g].play_started_at))]
    ELSE G

\* total_play_time[player] += time.time() - play_started_at, when playing
credit_play_time(G, g, player) ==
    IF G[g].play_started_at # None
    THEN LET play_duration == now - Val(G[g].play_started_at) IN
         [G EXCEPT ![g].total_play_time =
             DictPut(@, player, DictGet(@, player, 0) + play_duration)]
    ELSE G

\* POST /done/{game_name}
done_playing(player, g) ==
    /\ IF games[g].now_playing = Some(player)
       THEN LET credited == credit_play_time(games, g, player)
                total_time == sum_play_time(credited, player)
                entitled == total_time \div (GACHA_MINUTES_PER_PULL * 60)
                given == DictGet(gacha_pulls_given, player, 0)
                new_pulls == entitled - given
            IN /\ gacha_pulls_given' =
                    IF new_pulls > 0 THEN DictPut(gacha_pulls_given, player, entitled)
                    ELSE gacha_pulls_given
               /\ courtesy_cooldowns' =
                    IF games[g].queue = <<>>
                    THEN DictPut(courtesy_cooldowns, <<player, g>>,
                                 now + COURTESY_COOLDOWN_SECONDS)
                    ELSE courtesy_cooldowns
               /\ games' = advance_others(advance_game(credited, g), g)
       ELSE UNCHANGED <<games, courtesy_cooldowns, gacha_pulls_given>>
    /\ UNCHANGED <<queue_paused, pause_started_at, now>>

\* the loop of logout over the games
RECURSIVE logout_games(_, _, _)
logout_games(G, player, order) ==
    IF order = <<>> THEN G
    ELSE LET g == Head(order)
             removed == IF InQueue(G[g].queue, player)
                        THEN [G EXCEPT ![g].queue = ListRemove(@, player)]
                        ELSE G
             advanced == IF removed[g].now_playing = Some(player)
                         THEN advance_game(removed, g)
                         ELSE removed
         IN logout_games(advanced, player, Tail(order))

\* POST /logout (the player logs in again before the next request)
logout(player) ==
    /\ games' = logout_games(games, player, GameOrder(games))
    /\ UNCHANGED <<queue_paused, pause_started_at, courtesy_cooldowns,
                   gacha_pulls_given, now>>

\* player.lower().strip() over the user names of the model: the players, and
\* the spellings a requester of an administrator's operation can carry
lower_strip(player) ==
    CASE player = "A" -> "a"
      [] player = "B" -> "b"
      [] player = "C" -> "c"
      [] player = "D" -> "d"
      [] player = "E" -> "e"
      [] player = "Admin" -> "admin"
      [] player = " ADMIN " -> "admin"
      [] player = " root" -> "root"
      [] OTHER -> player

\* a test that takes every player for the administrator
is_admin_any(player) == TRUE

is_admin(player) == lower_strip(player) = "admin"

\* a resume that leaves play_started_at alone
resume_unshifted(G, pause_duration) == G

\* for game in games.values(): if game.play_started_at is not None:
\* game.play_started_at += pause_duration
resume_shifted(G, pause_duration) ==
    [g \in DOMAIN G |->
        IF G[g].play_started_at # None
        THEN [G[g] EXCEPT !.play_started_at = Some(Val(@) + pause_duration)]
        ELSE G[g]]

\* POST /toggle-pause
toggle_pause(requester) ==
    /\ is_admin(requester)
    /\ queue_paused' = ~queue_paused
    /\ IF queue_paused'
       THEN /\ pause_started_at' = Some(now)
            /\ UNCHANGED games
       ELSE /\ games' =
                 IF pause_started_at # None
                 THEN resume_shifted(games, now - Val(pause_started_at))
                 ELSE games
            /\ pause_started_at' = None
    /\ UNCHANGED <<courtesy_cooldowns, gacha_pulls_given, now>>

\* POST /admin/kick
admin_kick_player(requester, g) ==
    /\ is_admin(requester)
    /\ games' =
         IF games[g].now_playing # None
         THEN LET credited == credit_play_time(games, g, Val(games[g].now_playing))
              IN advance_others(advance_game(credited, g), g)
         ELSE games
    /\ UNCHANGED <<queue_paused, pause_started_at, courtesy_cooldowns,
                   gacha_pulls_given, now>>

\* POST /admin/remove
admin_remove_from_queue(requester, g, player_name) ==
    /\ is_admin(requester)
    /\ games' =
         IF InQueue(games[g].queue, player_name)
         THEN [games EXCEPT ![g].queue = ListRemove(@, player_name),
                            ![g].skip_counts = DictPop(@, player_name)]
         ELSE games
    /\ UNCHANGED <<queue_paused, pause_started_at, courtesy_cooldowns,
                   gacha_pulls_given, now>>

\* queue[i], queue[j] = queue[j], queue[i]
SwapAt(q, i, j) == [q EXCEPT ![i] = q[j], ![j] = q[i]]

\* POST /admin/bump-up
admin_bump_up(requester, g, player_name) ==
    /\ is_admin(requester)
    /\ games' =
         IF InQueue(games[g].queue, player_name)
         THEN LET idx == IndexOf(games[g].queue, player_name) IN
              IF idx > 1
              THEN [games EXCEPT ![g].queue = SwapAt(@, idx, idx - 1)]
              ELSE games
         ELSE games
    /\ UNCHANGED <<queue_paused, pause_started_at, courtesy_cooldowns,
                   gacha_pulls_given, now>>

\* POST /admin/bump-down
admin_bump_down(requester, g, player_name) ==
    /\ is_admin(requester)
    /\ games' =
         IF InQueue(games[g].queue, player_name)
         THEN LET idx == IndexOf(games[g].queue, player_name) IN
              IF idx < Len(games[g].queue)
              THEN [games EXCEPT ![g].queue = SwapAt(@, idx, idx + 1)]
              ELSE games
         ELSE games
    /\ UNCHANGED <<queue_paused, pause_started_at, courtesy_cooldowns,
                   gacha_pulls_given, now>>

\* POST /admin/set-playing
admin_set_playing(requester, g, player_name) ==
    /\ is_admin(requester)
    /\ games' =
         LET credited == IF games[g].now_playing # None
                         THEN credit_play_time(games, g, Val(games[g].now_playing))
                         ELSE games
             removed == IF InQueue(credited[g].queue, player_name)
                        THEN [credited EXCEPT ![g].queue = ListRemove(@, player_name)]
                        ELSE credited
         IN [removed EXCEPT ![g].now_playing = Some(player_name),
                            ![g].turn_started_at = Some(now),
                            ![g].turn_accepted = TRUE,
                            ![g].play_started_at = Some(now)]
    /\ UNCHANGED <<queue_paused, pause_started_at, courtesy_cooldowns,
                   gacha_pulls_given, now>>

\* POST /admin/add-to-queue
admin_add_to_queue(requester, g, player_name) ==
    /\ is_admin(requester)
    /\ games' =
         IF ~InQueue(games[g].queue, player_name)
            /\ games[g].now_playing # Some(player_name)
         THEN LET appended == [games EXCEPT ![g].queue = Append(@, player_name)] IN
              IF appended[g].now_playing = None
              THEN advance_game(appended, g)
              ELSE appended
         ELSE games
    /\ UNCHANGED <<queue_paused, pause_started_at, courtesy_cooldowns,
                   gacha_pulls_given, now>>

\* POST /admin/reset-stats
admin_reset_stats(requester) ==
    /\ is_admin(requester)
    /\ games' = [g \in DOMAIN games |->
                    [games[g] EXCEPT
                        !.play_time_offset =
                            [p \in (DOMAIN @) \cup (DOMAIN games[g].total_play_time) |->
                                IF p \in DOMAIN games[g].total_play_time
                                THEN games[g].total_play_time[p]
                                ELSE @[p]],
                        !.session_counts = EmptyDict]]
    /\ UNCHANGED <<queue_paused, pause_started_at, courtesy_cooldowns,
                   gacha_pulls_given, now>>

\* the cooldown reads of index(): one per game the viewer is not part of
RECURSIVE index_cooldowns(_, _, _, _)
index_cooldowns(cd, G, viewer, order) ==
    IF order = <<>> THEN cd
    ELSE LET g == Head(order) IN
         IF G[g].now_playing # Some(viewer) /\ ~InQueue(G[g].queue, viewer)
         THEN index_cooldowns(cooldown_after_read(cd, viewer, g), G, viewer, Tail(order))
         ELSE index_cooldowns(cd, G, viewer, Tail(order))

\* GET / (viewer "" is an anonymous request)
index(viewer) ==
    /\ games' = check_expired_turns(games)
    /\ courtesy_cooldowns' =
         IF viewer # "" THEN index_cooldowns(courtesy_cooldowns, games', viewer, GameOrder(games))
         ELSE courtesy_cooldowns
    /\ UNCHANGED <<queue_paused, pause_started_at, gacha_pulls_given, now>>

\* the program state, without the bookkeeping of the model
state == <<games, queue_paused, pause_started_at, courtesy_cooldowns,
           gacha_pulls_given, now>>

\* A run takes at most MaxSteps recorded steps.
Budget == steps < MaxSteps

\* A step that changed the program state is recorded and counted; a request
\* that changed nothing is a stuttering step.
Effective(rec) ==
    /\ state' # state
    /\ steps' = steps + 1
    /\ lastOp' = rec
    /\ UNCHANGED <<pre, hist>>

\* Every handler, with the requests drawn from the players, the games of
\* the table and the administrator.
Requests ==
    \/ \E d \in TickSteps : Budget /\ Tick(d) /\ Effective([op |-> "tick"])
    \/ \E p \in Players, g \in DOMAIN games :
          Budget /\ join_game(p, g) /\ Effective([op |-> "join", game |-> g, player |-> p])
    \/ \E p \in Players, g \in DOMAIN games :
          Budget /\ leave_game(p, g) /\ Effective([op |-> "leave", game |-> g, player |-> p])
    \/ \E p \in Players, g \in DOMAIN games, t \in Players :
          Budget /\ swap_places(p, g, t) /\ Effective([op |-> "swap", game |-> g, player |-> p])
    \/ \E p \in Players, g \in DOMAIN games :
          Budget /\ accept_turn(p, g)
          /\ Effective([op |-> "accept", game |-> g, player |-> p,
                        skips |-> DictGet(games[g].skip_counts, p, 0)])
    \/ \E p \in Players, g \in DOMAIN games :
          Budget /\ skip_turn(p, g) /\ Effective([op |-> "skip", game |-> g, player |-> p])
    \/ \E p \in Players, g \in DOMAIN games :
          Budget /\ done_playing(p, g) /\ Effective([op |-> "done", game |-> g, player |-> p])
    \/ \E p \in Players : Budget /\ logout(p) /\ Effective([op |-> "logout", player |-> p])
    \/ \E r \in Players \cup {"admin"} :
          Budget /\ toggle_pause(r) /\ Effective([op |-> "toggle_pause", player |-> r])
    \/ \E r \in Players \cup {"admin"}, g \in DOMAIN games :
          Budget /\ admin_kick_player(r, g) /\ Effective([op |-> "admin_kick", game |-> g])
    \/ \E r \in Players \cup {"admin"}, g \in DOMAIN games, p \in Players :
          Budget /\ admin_remove_from_queue(r, g, p)
          /\ Effective([op |-> "admin_remove", game |-> g, player |-> p])
    \/ \E r \in Players \cup {"admin"}, g \in DOMAIN games, p \in Players :
          Budget /\ admin_bump_up(r, g, p)
          /\ Effective([op |-> "admin_bump_up", game |-> g, player |-> p])
    \/ \E r \in Players \cup {"admin"}, g \in DOMAIN games, p \in Players :
          Budget /\ admin_bump_down(r, g, p)
          /\ Effective([op |-> "admin_bump_down", game |-> g, player |-> p])
    \/ \E r \in Players \cup {"admin"}, g \in DOMAIN games, p \in Players :
          Budget /\ admin_add_to_queue(r, g, p)
          /\ Effective([op |-> "admin_add_to_queue", game |-> g, player |-> p])
    \/ \E r \in Players \cup {"admin"} :
          Budget /\ admin_reset_stats(r) /\ Effective([op |-> "admin_reset_stats"])
    \/ \E v \in Players \cup {""} : Budget /\ index(v) /\ Effective([op |-> "index", player |-> v])

ForceAssign ==
    \E r \in Players \cup {"admin"}, g \in DOMAIN games, p \in Players :
        Budget /\ admin_set_playing(r, g, p)
        /\ Effective([op |-> "admin_set_playing", game |-> g, player |-> p])

\* Runs from the start of the process, every handler.
Next == Requests \/ ForceAssign

Spec == Init /\ [][Next]_vars

\* Runs from the start of the process without the administrator's force-assign.
NextNoForce == Requests

SpecNoForce == Init /\ [][NextNoForce]_vars

\* ------------------------------------------------ single steps from pre-states
\* Sequences without repetition over S, of length at most n.
RECURSIVE PermSeqs(_, _)
PermSeqs(S, n) ==
    IF n = 0 THEN {<<>>}
    ELSE LET shorter == PermSeqs(S, n - 1) IN
         shorter \cup UNION {{Append(q, x) : x \in {y \in S : ~InQueue(q, y)}} :
                                 q \in shorter}

NoRepeat(q) == \A i, j \in 1..Len(q) : i # j => q[i] # q[j]

\* A table reached at time `at` without the administrator: every occupant
\* joined an empty game at time started[g] and holds the turn pending, or
\* accepted it at once; the queues were then filled, in order, by joins made
\* while the process was paused at time `at` (a join appends and the pause
\* keeps advance_game from assigning anyone).
PreGames(gs, occ, accepted, started, qs) ==
    [g \in gs |->
        IF occ[g] = ""
        THEN [Game(g) EXCEPT !.queue = qs[g]]
        ELSE [Game(g) EXCEPT
                 !.queue = qs[g],
                 !.now_playing = Some(occ[g]),
                 !.turn_started_at = Some(started[g]),
                 !.turn_accepted = accepted[g],
                 !.play_started_at = IF accepted[g] THEN Some(started[g]) ELSE None,
                 !.session_counts = IF accepted[g] THEN DictPut(EmptyDict, occ[g], 1)
                                    ELSE EmptyDict]]

\* occupants are distinct players; a vacant game has the default flags; no
\* queue holds a player twice or the game's own occupant
WellFormedPre(gs, occ, accepted, started, qs) ==
    /\ \A g, h \in gs : g # h /\ occ[g] # "" => occ[g] # occ[h]
    /\ \A g \in gs : occ[g] = "" => ~accepted[g] /\ started[g] = 0
    /\ \A g \in gs : NoRepeat(qs[g]) /\ ~InQueue(qs[g], occ[g])

\* A request is recorded whether or not it changed the state; one request
\* is made from each pre-state, and the table it found is kept in `pre`.
Logged(rec) ==
    /\ lastOp.op = "pre"
    /\ steps' = steps + 1
    /\ lastOp' = rec
    /\ pre' = games
    /\ UNCHANGED hist

\* Pre-states at the timeout boundary: turns that began a whole timeout, half
\* a timeout or no time ago, pending or accepted, paused or not.
InitStep ==
    \E occ \in [FirstGames(NumGames) -> Players \cup {""}],
       accepted \in [FirstGames(NumGames) -> BOOLEAN],
       started \in [FirstGames(NumGames) ->
                       {0, TURN_TIMEOUT_SECONDS \div 2, TURN_TIMEOUT_SECONDS}],
       qs \in [FirstGames(NumGames) -> PermSeqs(Players, MaxStepQueue)],
       paused \in BOOLEAN :
        /\ WellFormedPre(FirstGames(NumGames), occ, accepted, started, qs)
        /\ games = PreGames(FirstGames(NumGames), occ, accepted, started, qs)
        /\ queue_paused = paused
        /\ pause_started_at = IF paused THEN Some(TURN_TIMEOUT_SECONDS) ELSE None
        /\ courtesy_cooldowns = <<>>
        /\ gacha_pulls_given = EmptyDict
        /\ now = TURN_TIMEOUT_SECONDS
        /\ lastOp = [op |-> "pre"]
        /\ steps = 0
        /\ pre = <<>>
        /\ hist = <<>>

\* a direct call of advance_game(games[g]), as the unit tests make it
advance_call(g) ==
    /\ games' = advance_game(games, g)
    /\ UNCHANGED <<queue_paused, pause_started_at, courtesy_cooldowns,
                   gacha_pulls_given, now>>

\* The requests that decide a pending or accepted turn, and a direct call of
\* advance_game.
NextStep ==
    \/ \E p \in Players, g \in DOMAIN games :
          accept_turn(p, g) /\ Logged([op |-> "accept", game |-> g, player |-> p])
    \/ \E p \in Players, g \in DOMAIN games :
          skip_turn(p, g) /\ Logged([op |-> "skip", game |-> g, player |-> p])
    \/ \E p \in Players, g \in DOMAIN games :
          leave_game(p, g) /\ Logged([op |-> "leave", game |-> g, player |-> p])
    \/ index("") /\ Logged([op |-> "index", player |-> ""])
    \/ \E g \in DOMAIN games :
          advance_call(g) /\ Logged([op |-> "advance", game |-> g])

SpecStep == InitStep /\ [][NextStep]_vars

\* Pre-states of a timeout check over NumScanGames games: pending turns that
\* are expired or fresh, and accepted turns.
InitExpire ==
    \E occ \in [FirstGames(NumScanGames) -> Players \cup {""}],
       accepted \in [FirstGames(NumScanGames) -> BOOLEAN],
       started \in [FirstGames(NumScanGames) -> {0, TURN_TIMEOUT_SECONDS}],
       qs \in [FirstGames(NumScanGames) -> PermSeqs(Players, MaxStepQueue)] :
        /\ WellFormedPre(FirstGames(NumScanGames), occ, accepted, started, qs)
        /\ games = PreGames(FirstGames(NumScanGames), occ, accepted, started, qs)
        /\ queue_paused = FALSE
        /\ pause_started_at = None
        /\ courtesy_cooldowns = <<>>
        /\ gacha_pulls_given = EmptyDict
        /\ now = TURN_TIMEOUT_SECONDS
        /\ lastOp = [op |-> "pre"]
        /\ steps = 0
        /\ pre = <<>>
        /\ hist = <<>>

NextExpire == index("") /\ Logged([op |-> "index", player |-> ""])

SpecExpire == InitExpire /\ [][NextExpire]_vars

\* Pre-states of a queue scan: one game holds a queue of up to NumScanPlayers
\* players, the occupants of the games have accepted at time 0.
InitAdvance ==
    \E occ \in [FirstGames(NumScanGames) -> ScanPlayers \cup {""}],
       target \in FirstGames(NumScanGames),
       q \in PermSeqs(ScanPlayers, NumScanPlayers) :
        LET gs == FirstGames(NumScanGames)
            accepted == [g \in gs |-> occ[g] # ""]
            started == [g \in gs |-> 0]
            qs == [g \in gs |-> IF g = target THEN q ELSE <<>>]
        IN /\ WellFormedPre(gs, occ, accepted, started, qs)
           /\ games = PreGames(gs, occ, accepted, started, qs)
           /\ queue_paused = FALSE
           /\ pause_started_at = None
           /\ courtesy_cooldowns = <<>>
           /\ gacha_pulls_given = EmptyDict
           /\ now = 0
           /\ lastOp = [op |-> "pre"]
           /\ steps = 0
           /\ pre = <<>>
           /\ hist = <<>>

NextAdvance ==
    \E g \in DOMAIN games : advance_call(g) /\ Logged([op |-> "advance", game |-> g])

SpecAdvance == InitAdvance /\ [][NextAdvance]_vars

\* ------------------------------------------------ play runs
\* Runs from the start of the process in which players join, accept and
\* finish while the clock advances and the administrator pauses and resumes.
\* hist[g] keeps, for the turn accepted last at g, the time T of the accept,
\* the time D the clock advanced while paused since then, and whether the
\* accept was made while the process was not paused.
NoSession == [T |-> 0, D |-> 0, clean |-> FALSE]

InitPlay ==
    /\ games = [g \in FirstGames(NumGames) |-> Game(g)]
    /\ queue_paused = FALSE
    /\ pause_started_at = None
    /\ courtesy_cooldowns = <<>>
    /\ gacha_pulls_given = EmptyDict
    /\ now = 0
    /\ lastOp = [op |-> "init"]
    /\ steps = 0
    /\ pre = <<>>
    /\ hist = [g \in FirstGames(NumGames) |-> NoSession]

PlayBudget == steps < MaxPlaySteps

Played(rec) ==
    /\ state' # state
    /\ steps' = steps + 1
    /\ lastOp' = rec
    /\ UNCHANGED pre
    /\ hist' = [g \in DOMAIN games |->
                   IF games'[g].turn_accepted /\ ~games[g].turn_accepted
                   THEN [T |-> now, D |-> 0, clean |-> ~queue_paused]
                   ELSE IF queue_paused
                        THEN [hist[g] EXCEPT !.D = @ + (now' - now)]
                        ELSE hist[g]]

NextPlay ==
    \/ \E d \in TickSteps : PlayBudget /\ Tick(d) /\ Played([op |-> "tick"])
    \/ \E p \in PlayPlayers, g \in DOMAIN games :
          PlayBudget /\ join_game(p, g)
          /\ Played([op |-> "join", game |-> g, player |-> p])
    \/ \E p \in PlayPlayers, g \in DOMAIN games :
          PlayBudget /\ accept_turn(p, g)
          /\ Played([op |-> "accept", game |-> g, player |-> p])
    \/ \E p \in PlayPlayers, g \in DOMAIN games :
          PlayBudget /\ done_playing(p, g)
          /\ Played([op |-> "done", game |-> g, player |-> p])
    \/ PlayBudget /\ toggle_pause("admin")
          /\ Played([op |-> "toggle_pause", player |-> "admin"])

SpecPlay == InitPlay /\ [][NextPlay]_vars

\* ------------------------------------------------ joins around a cooldown
\* Pre-states of a join or finish: a table as in InitStep with turns begun at
\* time 0, and a cooldown ledger holding at most one entry, left by a finish
\* of game cg by player cp with an empty queue, that ends at one of EndTimes.
\* While the entry is active cp has not been able to join cg.  hist keeps
\* the ledger the request found.
CooldownPre(EndTimes) ==
    \E occ \in [FirstGames(NumGames) -> Players \cup {""}],
       accepted \in [FirstGames(NumGames) -> BOOLEAN],
       qs \in [FirstGames(NumGames) -> PermSeqs(Players, MaxCooldownQueue)],
       paused \in BOOLEAN,
       cp \in Players \cup {""},
       cg \in FirstGames(NumGames),
       ends \in EndTimes :
        LET gs == FirstGames(NumGames)
            started == [g \in gs |-> 0]
        IN /\ WellFormedPre(gs, occ, accepted, started, qs)
           /\ cp = "" => (cg = GAME_NAMES[1] /\ \A e \in EndTimes : ends <= e)
           /\ (cp # "" /\ ends > TURN_TIMEOUT_SECONDS) =>
                 (occ[cg] # cp /\ ~InQueue(qs[cg], cp))
           /\ games = PreGames(gs, occ, accepted, started, qs)
           /\ queue_paused = paused
           /\ pause_started_at = IF paused THEN Some(TURN_TIMEOUT_SECONDS) ELSE None
           /\ courtesy_cooldowns = IF cp = "" THEN <<>> ELSE DictPut(<<>>, <<cp, cg>>, ends)
           /\ gacha_pulls_given = EmptyDict
           /\ now = TURN_TIMEOUT_SECONDS
           /\ lastOp = [op |-> "pre"]
           /\ steps = 0
           /\ pre = <<>>
           /\ hist = courtesy_cooldowns

\* the entry ended a cooldown ago, ends now, ends in half a cooldown or began
\* now
InitCooldown ==
    CooldownPre({TURN_TIMEOUT_SECONDS - COURTESY_COOLDOWN_SECONDS,
                 TURN_TIMEOUT_SECONDS,
                 TURN_TIMEOUT_SECONDS + (COURTESY_COOLDOWN_SECONDS \div 2),
                 TURN_TIMEOUT_SECONDS + COURTESY_COOLDOWN_SECONDS})

NextCooldown ==
    \/ \E p \in Players, g \in DOMAIN games :
          join_game(p, g) /\ Logged([op |-> "join", game |-> g, player |-> p])
    \/ \E p \in Players, g \in DOMAIN games :
          done_playing(p, g) /\ Logged([op |-> "done", game |-> g, player |-> p])

SpecCooldown == InitCooldown /\ [][NextCooldown]_vars

\* ------------------------------------------------ single requests, any name
\* A game name that is not configured.
UnknownGame == "Taiko"

\* the names a request can carry in its path or form
RequestNames == DOMAIN games \cup {UnknownGame}

\* if not player or game_name not in games: return RedirectResponse(...)
unknown_game(game_name) == game_name \notin DOMAIN games

\* the early return of a handler, before the lock is taken
rejected == UNCHANGED state

\* Pre-states of one request: as for InitCooldown, the ledger entry having
\* ended a cooldown ago or ending in half a cooldown.
InitRequest ==
    CooldownPre({TURN_TIMEOUT_SECONDS - COURTESY_COOLDOWN_SECONDS,
                 TURN_TIMEOUT_SECONDS + (COURTESY_COOLDOWN_SECONDS \div 2)})

\* One request of a player, for a known or unknown game.
NextRequest ==
    \/ \E p \in Players, g \in RequestNames :
          /\ IF unknown_game(g) THEN rejected ELSE join_game(p, g)
          /\ Logged([op |-> "join", game |-> g, player |-> p])
    \/ \E p \in Players, g \in RequestNames :
          /\ IF unknown_game(g) THEN rejected ELSE leave_game(p, g)
          /\ Logged([op |-> "leave", game |-> g, player |-> p])
    \/ \E p \in Players, g \in RequestNames :
          /\ IF unknown_game(g) THEN rejected ELSE accept_turn(p, g)
          /\ Logged([op |-> "accept", game |-> g, player |-> p])
    \/ \E p \in Players, g \in RequestNames :
          /\ IF unknown_game(g) THEN rejected ELSE skip_turn(p, g)
          /\ Logged([op |-> "skip", game |-> g, player |-> p])
    \/ \E p \in Players, g \in RequestNames :
          /\ IF unknown_game(g) THEN rejected ELSE done_playing(p, g)
          /\ Logged([op |-> "done", game |-> g, player |-> p])
    \/ \E p \in Players, t \in Players, g \in RequestNames :
          /\ IF unknown_game(g) THEN rejected ELSE swap_places(p, g, t)
          /\ Logged([op |-> "swap", game |-> g, player |-> p, target |-> t])

SpecRequest == InitRequest /\ [][NextRequest]_vars

\* ------------------------------------------------ administrator's requests
\* The names a requester of an administrator's operation can carry: none
\* ("", an anonymous caller), a player, the reserved name in three
\* spellings, and names that only resemble it.
AdminRequesters ==
    {"", "A", "admin", "Admin", " ADMIN ", "administrator", " root"}

\* Pre-states of one administrator's request: a table as in InitStep with
\* turns begun at time 0, paused or not.
InitAdmin ==
    \E occ \in [FirstGames(NumGames) -> Players \cup {""}],
       accepted \in [FirstGames(NumGames) -> BOOLEAN],
       qs \in [FirstGames(NumGames) -> PermSeqs(PlayPlayers, MaxStepQueue)],
       paused \in BOOLEAN :
        LET gs == FirstGames(NumGames)
            started == [g \in gs |-> 0]
        IN /\ WellFormedPre(gs, occ, accepted, started, qs)
           /\ games = PreGames(gs, occ, accepted, started, qs)
           /\ queue_paused = paused
           /\ pause_started_at = IF paused THEN Some(TURN_TIMEOUT_SECONDS \div 2) ELSE None
           /\ courtesy_cooldowns = <<>>
           /\ gacha_pulls_given = EmptyDict
           /\ now = TURN_TIMEOUT_SECONDS
           /\ lastOp = [op |-> "pre"]
           /\ steps = 0
           /\ pre = <<>>
           /\ hist = <<>>

\* One request of an administrator's operation under any of the names; a
\* requester who fails is_admin gets the early return.
NextAdmin ==
    \/ \E r \in AdminRequesters :
          /\ IF is_admin(r) THEN toggle_pause(r) ELSE rejected
          /\ Logged([op |-> "toggle_pause", requester |-> r])
    \/ \E r \in AdminRequesters, g \in DOMAIN games :
          /\ IF is_admin(r) THEN admin_kick_player(r, g) ELSE rejected
          /\ Logged([op |-> "admin_kick", requester |-> r, game |-> g])
    \/ \E r \in AdminRequesters, g \in DOMAIN games, p \in PlayPlayers :
          /\ IF is_admin(r) THEN admin_remove_from_queue(r, g, p) ELSE rejected
          /\ Logged([op |-> "admin_remove", requester |-> r, game |-> g, player |-> p])
    \/ \E r \in AdminRequesters, g \in DOMAIN games, p \in PlayPlayers :
          /\ IF is_admin(r) THEN admin_bump_up(r, g, p) ELSE rejected
          /\ Logged([op |-> "admin_bump_up", requester |-> r, game |-> g, player |-> p])
    \/ \E r \in AdminRequesters, g \in DOMAIN games, p \in PlayPlayers :
          /\ IF is_admin(r) THEN admin_bump_down(r, g, p) ELSE rejected
          /\ Logged([op |-> "admin_bump_down", requester |-> r, game |-> g, player |-> p])
    \/ \E r \in AdminRequesters, g \in DOMAIN games, p \in PlayPlayers :
          /\ IF is_admin(r) THEN admin_set_playing(r, g, p) ELSE rejected
          /\ Logged([op |-> "admin_set_playing", requester |-> r, game |-> g, player |-> p])
    \/ \E r \in AdminRequesters, g \in DOMAIN games, p \in PlayPlayers :
          /\ IF is_admin(r) THEN admin_add_to_queue(r, g, p) ELSE rejected
          /\ Logged([op |-> "admin_add_to_queue", requester |-> r, game |-> g, player |-> p])
    \/ \E r \in AdminRequesters :
          /\ IF is_admin(r) THEN admin_reset_stats(r) ELSE rejected
          /\ Logged([op |-> "admin_reset_stats", requester |-> r])

SpecAdmin == InitAdmin /\ [][NextAdmin]_vars

\* ------------------------------------------------ requests in flight
\* The coroutines of NumRequests requests, interleaved at their await
\* points.  hist holds the lock (0 when free, else the request that holds
\* it), the position of each request and the request it carries:
\*   "idle"     no request
\*   "waiting"  at `async with lock`
\*   "locked"   inside the lock, before the handler's reads and writes
\*   "saving"   inside the lock, at the awaits of save_game_state and the
\*              other saves, after the handler's reads and writes
InFlight == 1..NumRequests

NoRequest == [op |-> "none", player |-> "", game |-> ""]

InitLock ==
    /\ games = [g \in FirstGames(NumGames) |-> Game(g)]
    /\ queue_paused = FALSE
    /\ pause_started_at = None
    /\ courtesy_cooldowns = <<>>
    /\ gacha_pulls_given = EmptyDict
    /\ now = 0
    /\ lastOp = [op |-> "init"]
    /\ steps = 0
    /\ pre = <<>>
    /\ hist = [lock |-> 0,
               pc |-> [r \in InFlight |-> "idle"],
               req |-> [r \in InFlight |-> NoRequest]]

LockBudget == steps < MaxLockSteps

\* a lock that never makes a request wait
lock_free_always(h) == TRUE

\* asyncio.Lock: not locked
lock_free(h) == h.lock = 0

\* a coroutine runs up to its next await without the program state changing
Suspended(h) ==
    /\ hist' = h
    /\ steps' = steps + 1
    /\ UNCHANGED <<state, lastOp, pre>>

\* the request reaches `async with lock`
Arrive(r, request) ==
    /\ hist.pc[r] = "idle"
    /\ Suspended([hist EXCEPT !.pc[r] = "waiting", !.req[r] = request])

\* lock.acquire()
Acquire(r) ==
    /\ hist.pc[r] = "waiting"
    /\ lock_free(hist)
    /\ Suspended([hist EXCEPT !.pc[r] = "locked", !.lock = r])

\* the handler's reads and writes, up to its first await of a save
Body(r) ==
    /\ hist.pc[r] = "locked"
    /\ hist' = [hist EXCEPT !.pc[r] = "saving"]
    /\ steps' = steps + 1
    /\ UNCHANGED <<lastOp, pre>>

\* the saves are done and the lock is released
Release(r) ==
    /\ hist.pc[r] = "saving"
    /\ Suspended([hist EXCEPT !.pc[r] = "idle", !.req[r] = NoRequest,
                              !.lock = IF @ = r THEN 0 ELSE @])

NextLock ==
    \/ \E r \in InFlight, p \in PlayPlayers, g \in DOMAIN games,
          op \in {"join", "leave", "accept", "skip", "done"} :
          LockBudget /\ Arrive(r, [op |-> op, player |-> p, game |-> g])
    \/ \E r \in InFlight :
          LockBudget /\ Arrive(r, [op |-> "toggle_pause", player |-> "admin", game |-> ""])
    \/ \E r \in InFlight :
          LockBudget /\ Arrive(r, [op |-> "index", player |-> "", game |-> ""])
    \/ \E r \in InFlight : LockBudget /\ Acquire(r)
    \/ \E r \in InFlight :
          LockBudget /\ hist.req[r].op = "join" /\ Body(r)
          /\ join_game(hist.req[r].player, hist.req[r].game)
    \/ \E r \in InFlight :
          LockBudget /\ hist.req[r].op = "leave" /\ Body(r)
          /\ leave_game(hist.req[r].player, hist.req[r].game)
    \/ \E r \in InFlight :
          LockBudget /\ hist.req[r].op = "accept" /\ Body(r)
          /\ accept_turn(hist.req[r].player, hist.req[r].game)
    \/ \E r \in InFlight :
          LockBudget /\ hist.req[r].op = "skip" /\ Body(r)
          /\ skip_turn(hist.req[r].player, hist.req[r].game)
    \/ \E r \in InFlight :
          LockBudget /\ hist.req[r].op = "done" /\ Body(r)
          /\ done_playing(hist.req[r].player, hist.req[r].game)
    \/ \E r \in InFlight :
          LockBudget /\ hist.req[r].op = "toggle_pause" /\ Body(r)
          /\ toggle_pause(hist.req[r].player)
    \/ \E r \in InFlight :
          LockBudget /\ hist.req[r].op = "index" /\ Body(r)
          /\ index(hist.req[r].player)
    \/ \E r \in InFlight : LockBudget /\ Release(r)
    \/ LockBudget /\ Tick(TURN_TIMEOUT_SECONDS)
          /\ steps' = steps + 1 /\ UNCHANGED <<lastOp, pre, hist>>

SpecLock == InitLock /\ [][NextLock]_vars

\* ------------------------------------------------ persistence and restart
\* The database of src/database.py: one function per table, from the primary
\* key to the row.  NULL is None.
EmptyDb ==
    [game_state |-> <<>>, player_game_stats |-> <<>>, global_state |-> <<>>,
     courtesy_cooldowns |-> <<>>, gacha_pulls_given |-> <<>>]

\* json.dumps / json.loads of a list of names, str / float of a timestamp:
\* the text is kept apart from the value it encodes
json_dumps(q) == <<"json", q>>
json_loads(text) == text[2]
str_of(x) == <<"str", x>>
float_of(text) == text[2]

\* the truth value Python gives an optional number: None and 0 are false
truthy(o) == o # None /\ Val(o) # 0

\* the row of game_state written for one game
game_state_row(game) ==
    [queue |-> json_dumps(game.queue),
     now_playing |-> game.now_playing,
     turn_started_at |-> game.turn_started_at,
     turn_accepted |-> IF game.turn_accepted THEN 1 ELSE 0,
     play_started_at |-> game.play_started_at]

\* the keys of player_game_stats written for the games of G
stats_keys(G) ==
    {<<p, g>> : p \in Players, g \in DOMAIN G} \cap
    {k \in Players \X DOMAIN G :
        k[1] \in (DOMAIN G[k[2]].skip_counts) \cup (DOMAIN G[k[2]].total_play_time)
                   \cup (DOMAIN G[k[2]].session_counts)}

\* save_game_state: upserts of every game and of every player with statistics
save_game_state(db, G) ==
    [db EXCEPT
        !.game_state = [g \in (DOMAIN @) \cup (DOMAIN G) |->
                           IF g \in DOMAIN G THEN game_state_row(G[g]) ELSE @[g]],
        !.player_game_stats =
            [k \in (DOMAIN @) \cup stats_keys(G) |->
                IF k \in stats_keys(G)
                THEN [skip_count |-> DictGet(G[k[2]].skip_counts, k[1], 0),
                      total_play_time |-> DictGet(G[k[2]].total_play_time, k[1], 0),
                      session_count |-> DictGet(G[k[2]].session_counts, k[1], 0)]
                ELSE @[k]]]

save_global_state(db, paused, started) ==
    [db EXCEPT
        !.global_state =
            [k \in (DOMAIN @) \cup {"queue_paused", "pause_started_at"} |->
                IF k = "queue_paused" THEN Some(IF paused THEN "1" ELSE "0")
                ELSE IF k = "pause_started_at"
                     THEN (IF truthy(started) THEN Some(str_of(Val(started))) ELSE None)
                     ELSE @[k]]]

\* DELETE FROM courtesy_cooldowns, then one INSERT per entry
save_courtesy_cooldowns(db, cooldowns) == [db EXCEPT !.courtesy_cooldowns = cooldowns]

\* save_gacha_state, the rows of gacha_pulls_given
save_gacha_state(db, pulls_given) ==
    [db EXCEPT
        !.gacha_pulls_given = [u \in (DOMAIN @) \cup (DOMAIN pulls_given) |->
                                  IF u \in DOMAIN pulls_given THEN pulls_given[u] ELSE @[u]]]

\* lifespan: one game of the new process, filled from load_state
loaded_game(db, g) ==
    LET fresh == Game(g)
        rows == db.player_game_stats
        mine == {k \in DOMAIN rows : k[2] = g}
        from_row ==
            IF g \in DOMAIN db.game_state
            THEN [fresh EXCEPT
                     !.queue = json_loads(db.game_state[g].queue),
                     !.now_playing = db.game_state[g].now_playing,
                     !.turn_started_at = db.game_state[g].turn_started_at,
                     !.turn_accepted = (db.game_state[g].turn_accepted # 0),
                     !.play_started_at = db.game_state[g].play_started_at]
            ELSE fresh
    IN [from_row EXCEPT
           !.skip_counts =
               [p \in {k[1] : k \in {m \in mine : rows[m].skip_count # 0}} |->
                   rows[<<p, g>>].skip_count],
           !.total_play_time =
               [p \in {k[1] : k \in {m \in mine : rows[m].total_play_time # 0}} |->
                   rows[<<p, g>>].total_play_time],
           !.session_counts =
               [p \in {k[1] : k \in {m \in mine : rows[m].session_count # 0}} |->
                   rows[<<p, g>>].session_count]]

\* the process stops and starts again: lifespan repopulates the globals
restart ==
    /\ games' = [g \in DOMAIN games |-> loaded_game(hist, g)]
    /\ queue_paused' =
         IF "queue_paused" \in DOMAIN hist.global_state
         THEN hist.global_state["queue_paused"] = Some("1")
         ELSE FALSE
    /\ pause_started_at' =
         IF "pause_started_at" \in DOMAIN hist.global_state
            /\ hist.global_state["pause_started_at"] # None
         THEN Some(float_of(Val(hist.global_state["pause_started_at"])))
         ELSE None
    /\ courtesy_cooldowns' =
         [k \in {c \in DOMAIN hist.courtesy_cooldowns : hist.courtesy_cooldowns[c] > now} |->
             hist.courtesy_cooldowns[k]]
    /\ gacha_pulls_given' = hist.gacha_pulls_given
    /\ UNCHANGED now

\* The process starts on an empty database, the clock at a positive time.
InitRestart ==
    /\ games = [g \in FirstGames(NumGames) |-> Game(g)]
    /\ queue_paused = FALSE
    /\ pause_started_at = None
    /\ courtesy_cooldowns = <<>>
    /\ gacha_pulls_given = EmptyDict
    /\ now = TURN_TIMEOUT_SECONDS
    /\ lastOp = [op |-> "init"]
    /\ steps = 0
    /\ pre = <<>>
    /\ hist = EmptyDb

RestartBudget == steps < MaxRestartSteps

\* a step of a run with its database: db is the database the step leaves
Stored(rec, db) ==
    /\ steps' = steps + 1
    /\ lastOp' = rec
    /\ hist' = db
    /\ UNCHANGED pre

\* Requests with the saves they make, clock steps, and restarts.  A join
\* under an active cooldown and a finish by a non-occupant return without a
\* save; GET / saves nothing.
NextRestart ==
    \/ \E d \in TickSteps :
          RestartBudget /\ Tick(d) /\ Stored([op |-> "tick"], hist)
    \/ \E p \in PlayPlayers, g \in DOMAIN games :
          RestartBudget /\ join_game(p, g)
          /\ Stored([op |-> "join", game |-> g, player |-> p],
                    IF cooldown_remaining(courtesy_cooldowns, p, g) > 0
                    THEN hist ELSE save_game_state(hist, games'))
    \/ \E p \in PlayPlayers, g \in DOMAIN games :
          RestartBudget /\ leave_game(p, g)
          /\ Stored([op |-> "leave", game |-> g, player |-> p],
                    save_game_state(hist, games'))
    \/ \E p \in PlayPlayers, g \in DOMAIN games :
          RestartBudget /\ accept_turn(p, g)
          /\ Stored([op |-> "accept", game |-> g, player |-> p],
                    save_game_state(hist, games'))
    \/ \E p \in PlayPlayers, g \in DOMAIN games :
          RestartBudget /\ skip_turn(p, g)
          /\ Stored([op |-> "skip", game |-> g, player |-> p],
                    save_game_state(hist, games'))
    \/ \E p \in PlayPlayers, g \in DOMAIN games :
          RestartBudget /\ done_playing(p, g)
          /\ Stored([op |-> "done", game |-> g, player |-> p],
                    IF games[g].now_playing = Some(p)
                    THEN save_courtesy_cooldowns(
                             save_gacha_state(save_game_state(hist, games'),
                                              gacha_pulls_given'),
                             courtesy_cooldowns')
                    ELSE hist)
    \/ RestartBudget /\ toggle_pause("admin")
          /\ Stored([op |-> "toggle_pause"],
                    save_global_state(save_game_state(hist, games'),
                                      queue_paused', pause_started_at'))
    \/ \E g \in DOMAIN games, p \in PlayPlayers :
          RestartBudget /\ admin_remove_from_queue("admin", g, p)
          /\ Stored([op |-> "admin_remove", game |-> g, player |-> p],
                    save_game_state(hist, games'))
    \/ RestartBudget /\ admin_reset_stats("admin")
          /\ Stored([op |-> "admin_reset_stats"], save_game_state(hist, games'))
    \/ RestartBudget /\ index("") /\ Stored([op |-> "index"], hist)
    \/ RestartBudget /\ restart /\ Stored([op |-> "restart"], hist)

SpecRestart == InitRestart /\ [][NextRestart]_vars

\* ------------------------------------------------ play time and pulls
\* Runs of one player over the games, the clock moving by half a timeout or
\* by the play time of one pull.
GachaPlayer == PlayerNames[1]

GachaTicks == {TURN_TIMEOUT_SECONDS \div 2, GACHA_MINUTES_PER_PULL * 60}

MaxGachaTime == MaxGachaPulls * GACHA_MINUTES_PER_PULL * 60 + TURN_TIMEOUT_SECONDS

GachaBudget == steps < MaxGachaSteps

\* time.time() moves on by d
Elapse(d) ==
    /\ now + d <= MaxGachaTime
    /\ now' = now + d
    /\ UNCHANGED <<games, queue_paused, pause_started_at, courtesy_cooldowns,
                   gacha_pulls_given>>

NextGacha ==
    \/ \E d \in GachaTicks : GachaBudget /\ Elapse(d) /\ Effective([op |-> "tick"])
    \/ \E g \in DOMAIN games :
          GachaBudget /\ join_game(GachaPlayer, g)
          /\ Effective([op |-> "join", game |-> g, player |-> GachaPlayer])
    \/ \E g \in DOMAIN games :
          GachaBudget /\ accept_turn(GachaPlayer, g)
          /\ Effective([op |-> "accept", game |-> g, player |-> GachaPlayer])
    \/ \E g \in DOMAIN games :
          GachaBudget /\ done_playing(GachaPlayer, g)
          /\ Effective([op |-> "done", game |-> g, player |-> GachaPlayer])
    \/ GachaBudget /\ toggle_pause("admin")
          /\ Effective([op |-> "toggle_pause", player |-> "admin"])

SpecGacha == Init /\ [][NextGacha]_vars

\* ------------------------------------------------ swaps
\* Every well-formed state before a swap: queues of up to MaxSwapQueue
\* players, any occupant, paused or not.
InitSwap ==
    \E occ \in [FirstGames(NumGames) -> Players \cup {""}],
       accepted \in [FirstGames(NumGames) -> BOOLEAN],
       qs \in [FirstGames(NumGames) -> PermSeqs(Players, MaxSwapQueue)],
       paused \in BOOLEAN :
        LET started == [g \in FirstGames(NumGames) |->
                           IF occ[g] = "" THEN 0 ELSE TURN_TIMEOUT_SECONDS \div 2]
        IN /\ WellFormedPre(FirstGames(NumGames), occ, accepted, started, qs)
           /\ games = PreGames(FirstGames(NumGames), occ, accepted, started, qs)
           /\ queue_paused = paused
           /\ pause_started_at = IF paused THEN Some(TURN_TIMEOUT_SECONDS) ELSE None
           /\ courtesy_cooldowns = <<>>
           /\ gacha_pulls_given = EmptyDict
           /\ now = TURN_TIMEOUT_SECONDS
           /\ lastOp = [op |-> "pre"]
           /\ steps = 0
           /\ pre = <<>>
           /\ hist = <<>>

\* One swap request: any logged-in player, any game name, any target name.
NextSwap ==
    \E p \in Players, g \in RequestNames, t \in Players \cup {""} :
        /\ IF unknown_game(g) THEN rejected ELSE swap_places(p, g, t)
        /\ Logged([op |-> "swap", game |-> g, player |-> p, target |-> t])

SpecSwap == InitSwap /\ [][NextSwap]_vars

\* ------------------------------------------------ play sessions and credits
\* Runs of joins, accepts, finishes, kicks, forced assignments and pause
\* toggles.  hist[g] tells whether the play session now held at game g, the
\* one its play_started_at belongs to, has had its time added to
\* total_play_time already.
InitCredit ==
    /\ games = [g \in FirstGames(NumGames) |-> Game(g)]
    /\ queue_paused = FALSE
    /\ pause_started_at = None
    /\ courtesy_cooldowns = <<>>
    /\ gacha_pulls_given = EmptyDict
    /\ now = 0
    /\ lastOp = [op |-> "init"]
    /\ steps = 0
    /\ pre = <<>>
    /\ hist = [g \in FirstGames(NumGames) |-> FALSE]

CreditBudget == steps < MaxCreditSteps

\* the request rec finds a play session at game g and adds its elapsed time
\* (src/main.py:576-582, 694-699, 816-821)
Credits(rec, g) ==
    /\ rec.op \in {"done", "admin_kick", "admin_set_playing"}
    /\ rec.game = g
    /\ games[g].now_playing # None
    /\ games[g].play_started_at # None
    /\ rec.op = "done" => games[g].now_playing = Some(rec.player)

\* the request rec begins a play session at game g: play_started_at is set
\* to the present time (src/main.py:538, 829)
Begins(rec, g) ==
    /\ rec.op \in {"accept", "admin_set_playing"}
    /\ rec.game = g
    /\ games'[g].play_started_at # None
    /\ rec.op = "accept" => games[g].play_started_at = None

Sessioned(rec) ==
    /\ state' # state
    /\ steps' = steps + 1
    /\ lastOp' = rec
    /\ pre' = games
    /\ hist' = [g \in DOMAIN games |->
                   IF rec.op = "tick" \/ rec.op = "toggle_pause" THEN hist[g]
                   ELSE IF Begins(rec, g) \/ games'[g].play_started_at = None THEN FALSE
                   ELSE IF Credits(rec, g) THEN TRUE
                   ELSE hist[g]]

NextCredit ==
    \/ \E d \in TickSteps : CreditBudget /\ Tick(d) /\ Sessioned([op |-> "tick"])
    \/ \E p \in PlayPlayers, g \in DOMAIN games :
          CreditBudget /\ join_game(p, g)
          /\ Sessioned([op |-> "join", game |-> g, player |-> p])
    \/ \E p \in PlayPlayers, g \in DOMAIN games :
          CreditBudget /\ accept_turn(p, g)
          /\ Sessioned([op |-> "accept", game |-> g, player |-> p])
    \/ \E p \in PlayPlayers, g \in DOMAIN games :
          CreditBudget /\ done_playing(p, g)
          /\ Sessioned([op |-> "done", game |-> g, player |-> p])
    \/ \E g \in DOMAIN games :
          CreditBudget /\ admin_kick_player("admin", g)
          /\ Sessioned([op |-> "admin_kick", game |-> g])
    \/ \E p \in PlayPlayers, g \in DOMAIN games :
          CreditBudget /\ admin_set_playing("admin", g, p)
          /\ Sessioned([op |-> "admin_set_playing", game |-> g, player |-> p])
    \/ CreditBudget /\ toggle_pause("admin")
          /\ Sessioned([op |-> "toggle_pause", player |-> "admin"])

SpecCredit == InitCredit /\ [][NextCredit]_vars

\* ------------------------------------------------ accept windows and pauses
\* Runs of joins, accepts, skips, polls and pause toggles with the clock.
\* hist[g] is the number of seconds the queue has been paused since the turn
\* now held at game g began.
InitWindow ==
    /\ games = [g \in FirstGames(NumGames) |-> Game(g)]
    /\ queue_paused = FALSE
    /\ pause_started_at = None
    /\ courtesy_cooldowns = <<>>
    /\ gacha_pulls_given = EmptyDict
    /\ now = 0
    /\ lastOp = [op |-> "init"]
    /\ steps = 0
    /\ pre = <<>>
    /\ hist = [g \in FirstGames(NumGames) |-> 0]

WindowBudget == steps < MaxWindowSteps

Windowed(rec) ==
    /\ state' # state
    /\ steps' = steps + 1
    /\ lastOp' = rec
    /\ pre' = games
    /\ hist' = [g \in DOMAIN games |->
                   IF games'[g].turn_started_at # games[g].turn_started_at THEN 0
                   ELSE IF queue_paused THEN hist[g] + (now' - now)
                   ELSE hist[g]]

NextWindow ==
    \/ \E d \in TickSteps : WindowBudget /\ Tick(d) /\ Windowed([op |-> "tick"])
    \/ \E p \in PlayPlayers, g \in DOMAIN games :
          WindowBudget /\ join_game(p, g)
          /\ Windowed([op |-> "join", game |-> g, player |-> p])
    \/ \E p \in PlayPlayers, g \in DOMAIN games :
          WindowBudget /\ accept_turn(p, g)
          /\ Windowed([op |-> "accept", game |-> g, player |-> p])
    \/ \E p \in PlayPlayers, g \in DOMAIN games :
          WindowBudget /\ done_playing(p, g)
          /\ Windowed([op |-> "done", game |-> g, player |-> p])
    \/ WindowBudget /\ index("") /\ Windowed([op |-> "index", player |-> ""])
    \/ WindowBudget /\ toggle_pause("admin")
          /\ Windowed([op |-> "toggle_pause", player |-> "admin"])

SpecWindow == InitWindow /\ [][NextWindow]_vars

\* ------------------------------------------------ waiting for a turn
\* Unbounded runs of joins, leaves, skips and finishes with the queue running
\* and the clock standing still.  skip_counts is shown on the page and saved
\* but read by no branch of any handler; so that runs with any number of
\* skips stay within finitely many states, a count above MaxSkipCount is kept
\* as MaxSkipCount.
CapSkips(G) ==
    [g \in DOMAIN G |->
        [G[g] EXCEPT !.skip_counts =
            [p \in DOMAIN @ |-> IF @[p] > MaxSkipCount THEN MaxSkipCount ELSE @[p]]]]

\* POST /skip/{game_name}, counts kept up to MaxSkipCount
skip_turn_counted(player, g) ==
    /\ games' =
         IF games[g].now_playing = Some(player) /\ ~games[g].turn_accepted
         THEN CapSkips(skip_current_player(games, g))
         ELSE games
    /\ UNCHANGED <<queue_paused, pause_started_at, courtesy_cooldowns,
                   gacha_pulls_given, now>>

InitStarve ==
    /\ games = [g \in FirstGames(NumStarveGames) |-> Game(g)]
    /\ queue_paused = FALSE
    /\ pause_started_at = None
    /\ courtesy_cooldowns = <<>>
    /\ gacha_pulls_given = EmptyDict
    /\ now = 0
    /\ lastOp = [op |-> "init"]
    /\ steps = 0
    /\ pre = <<>>
    /\ hist = <<>>

\* a request that changed the state
Served(rec) ==
    /\ state' # state
    /\ lastOp' = rec
    /\ UNCHANGED <<steps, pre, hist>>

\* the occupant of game g skips or finishes
EndTurn(g) ==
    \E p \in Players :
        \/ skip_turn_counted(p, g) /\ Served([op |-> "skip", game |-> g, player |-> p])
        \/ done_playing(p, g) /\ Served([op |-> "done", game |-> g, player |-> p])

NextStarve ==
    \/ \E p \in Players, g \in DOMAIN games :
          join_game(p, g) /\ Served([op |-> "join", game |-> g, player |-> p])
    \/ \E p \in Players, g \in DOMAIN games :
          leave_game(p, g) /\ Served([op |-> "leave", game |-> g, player |-> p])
    \/ \E g \in DOMAIN games : EndTurn(g)

\* every occupant eventually skips or finishes
SpecStarve ==
    /\ InitStarve
    /\ [][NextStarve]_vars
    /\ \A g \in FirstGames(NumStarveGames) : WF_vars(EndTurn(g))

\* ------------------------------------------------ polls resolving expired turns
\* Unbounded runs of joins, accepts, polls and pause toggles while the
\* clock runs up to MaxTime in steps of one timeout.  pre holds the table before the last request.
Polled(rec) ==
    /\ state' # state
    /\ lastOp' = rec
    /\ pre' = games
    /\ UNCHANGED <<steps, hist>>

\* GET / by a visitor
Poll == index("") /\ Polled([op |-> "index", player |-> ""])

\* POST /toggle-pause by the administrator while the queue is paused
Resume ==
    /\ queue_paused
    /\ toggle_pause("admin")
    /\ Polled([op |-> "toggle_pause", player |-> "admin"])

\* POST /toggle-pause by the administrator while the queue runs
Pause ==
    /\ ~queue_paused
    /\ toggle_pause("admin")
    /\ Polled([op |-> "toggle_pause", player |-> "admin"])

NextResolve ==
    \/ Tick(TURN_TIMEOUT_SECONDS) /\ Polled([op |-> "tick"])
    \/ \E p \in PlayPlayers, g \in DOMAIN games :
          join_game(p, g) /\ Polled([op |-> "join", game |-> g, player |-> p])
    \/ \E p \in PlayPlayers, g \in DOMAIN games :
          accept_turn(p, g) /\ Polled([op |-> "accept", game |-> g, player |-> p])
    \/ Poll
    \/ Pause
    \/ Resume

\* the state is polled again and again, and no pause lasts forever
SpecResolve ==
    /\ Init
    /\ [][NextResolve]_vars
    /\ SF_vars(Poll)
    /\ WF_vars(Resume)

\* ------------------------------------------------ logouts among requests in flight
\* Requests in flight as in SpecLock, each from a player whose session cookie
\* resolved to the player's name when the request arrived (the call of
\* get_player_from_session precedes `async with lock`).  hist.sessions holds
\* the players with a session.
InitLogout ==
    /\ games = [g \in FirstGames(NumGames) |-> Game(g)]
    /\ queue_paused = FALSE
    /\ pause_started_at = None
    /\ courtesy_cooldowns = <<>>
    /\ gacha_pulls_given = EmptyDict
    /\ now = 0
    /\ lastOp = [op |-> "init"]
    /\ steps = 0
    /\ pre = <<>>
    /\ hist = [lock |-> 0,
               pc |-> [r \in InFlight |-> "idle"],
               req |-> [r \in InFlight |-> NoRequest],
               sessions |-> PlayPlayers]

LogoutBudget == steps < MaxLogoutSteps

\* get_player_from_session: the cookie names a session of the player
has_session(h, player) == player \in h.sessions

\* POST /login: a player without a session gets one
Login(p) ==
    /\ ~has_session(hist, p)
    /\ Suspended([hist EXCEPT !.sessions = @ \cup {p}])

\* logout: the lock is released and the session is deleted
ReleaseLogout(r) ==
    /\ hist.pc[r] = "saving"
    /\ hist.req[r].op = "logout"
    /\ Suspended([hist EXCEPT !.pc[r] = "idle", !.req[r] = NoRequest,
                              !.lock = IF @ = r THEN 0 ELSE @,
                              !.sessions = @ \ {hist.req[r].player}])

NextLogout ==
    \/ \E r \in InFlight, p \in PlayPlayers, g \in DOMAIN games,
          op \in {"join", "leave", "accept", "done"} :
          LogoutBudget /\ has_session(hist, p)
          /\ Arrive(r, [op |-> op, player |-> p, game |-> g])
    \/ \E r \in InFlight, p \in PlayPlayers :
          LogoutBudget /\ has_session(hist, p)
          /\ Arrive(r, [op |-> "logout", player |-> p, game |-> ""])
    \/ \E p \in PlayPlayers : LogoutBudget /\ Login(p)
    \/ \E r \in InFlight : LogoutBudget /\ Acquire(r)
    \/ \E r \in InFlight :
          LogoutBudget /\ hist.req[r].op = "join" /\ Body(r)
          /\ join_game(hist.req[r].player, hist.req[r].game)
    \/ \E r \in InFlight :
          LogoutBudget /\ hist.req[r].op = "leave" /\ Body(r)
          /\ leave_game(hist.req[r].player, hist.req[r].game)
    \/ \E r \in InFlight :
          LogoutBudget /\ hist.req[r].op = "accept" /\ Body(r)
          /\ accept_turn(hist.req[r].player, hist.req[r].game)
    \/ \E r \in InFlight :
          LogoutBudget /\ hist.req[r].op = "done" /\ Body(r)
          /\ done_playing(hist.req[r].player, hist.req[r].game)
    \/ \E r \in InFlight :
          LogoutBudget /\ hist.req[r].op = "logout" /\ Body(r)
          /\ logout(hist.req[r].player)
    \/ \E r \in InFlight :
          LogoutBudget /\ hist.req[r].op # "logout" /\ Release(r)
    \/ \E r \in InFlight : LogoutBudget /\ ReleaseLogout(r)

SpecLogout == InitLogout /\ [][NextLogout]_vars

\* ------------------------------------------------ finishes and skips, rippling
\* Pre-states of a finish or skip over NumScanGames games, not paused: turns
\* begun at time 0, pending or accepted, and vacant games whose waiting
\* players joined during a pause that has ended.
InitRipple ==
    \E occ \in [FirstGames(NumScanGames) -> Players \cup {""}],
       accepted \in [FirstGames(NumScanGames) -> BOOLEAN],
       qs \in [FirstGames(NumScanGames) -> PermSeqs(Players, MaxStepQueue)] :
        LET gs == FirstGames(NumScanGames)
            started == [g \in gs |-> 0]
        IN /\ WellFormedPre(gs, occ, accepted, started, qs)
           /\ games = PreGames(gs, occ, accepted, started, qs)
           /\ queue_paused = FALSE
           /\ pause_started_at = None
           /\ courtesy_cooldowns = <<>>
           /\ gacha_pulls_given = EmptyDict
           /\ now = TURN_TIMEOUT_SECONDS \div 2
           /\ lastOp = [op |-> "pre"]
           /\ steps = 0
           /\ pre = <<>>
           /\ hist = <<>>

NextRipple ==
    \/ \E p \in Players, g \in DOMAIN games :
          done_playing(p, g) /\ Logged([op |-> "done", game |-> g, player |-> p])
    \/ \E p \in Players, g \in DOMAIN games :
          skip_turn(p, g) /\ Logged([op |-> "skip", game |-> g, player |-> p])

SpecRipple == InitRipple /\ [][NextRipple]_vars

\* ================================================================ claims
\* vocabulary of the claims
QueueSet(q) == {q[i] : i \in 1..Len(q)}

Occupied(G, p) == {g \in DOMAIN G : G[g].now_playing = Some(p)}

\* p holds a pending (unaccepted) turn at g
Pending(G, g, p) == G[g].now_playing = Some(p) /\ ~G[g].turn_accepted

\* p is the occupant of no game other than g
FreeElsewhere(G, g, p) == \A h \in DOMAIN G : h # g => G[h].now_playing # Some(p)

\* positions of g's queue holding a player who occupies no other game
AvailableAt(G, g) == {i \in 1..Len(G[g].queue) : FreeElsewhere(G, g, G[g].queue[i])}

FirstAvailable(G, g) ==
    G[g].queue[CHOOSE i \in AvailableAt(G, g) : \A j \in AvailableAt(G, g) : i <= j]

\* occupant, queue and skip counts of every game
Outcome(G) == [g \in DOMAIN G |-> <<G[g].now_playing, G[g].queue, G[g].skip_counts>>]

\* every order in which the games of S can be visited
Perms(S) == {o \in PermSeqs(S, Cardinality(S)) : Len(o) = Cardinality(S)}

Expired(G) == {g \in DOMAIN G : turn_expired(G, g)}

\* the occupant and the queued players of g
Members(G, g) ==
    QueueSet(G[g].queue) \cup (IF G[g].now_playing = None THEN {} ELSE {Val(G[g].now_playing)})

\* no game with an expired pending turn shares a player with another game
Isolated(G) ==
    \A g \in Expired(G) : \A h \in DOMAIN G :
        h # g => Members(G, g) \cap Members(G, h) = {}

\* ---------------------------------------------------------------- C1
\* C1: in every reachable state, in any pause state, no game's occupant
\* (now_playing) is also an element of that game's queue.
C1_OccupantNotQueued ==
    \A g \in DOMAIN games :
        games[g].now_playing # None => ~InQueue(games[g].queue, Val(games[g].now_playing))

\* ---------------------------------------------------------------- C2
\* C2: without the administrator's force-assign, every player is the occupant
\* of at most one game, in particular after every advancement ripple.
C2_OneGamePerPlayer == \A p \in Players : Cardinality(Occupied(games, p)) <= 1

\* a finish whose ripple made the finishing player the occupant of another
\* game while the finished game went to the next player
C2_Witness ==
    /\ lastOp.op = "done"
    /\ games[lastOp.game].now_playing # None
    /\ \E h \in DOMAIN games : h # lastOp.game /\ games[h].now_playing = Some(lastOp.player)

\* ---------------------------------------------------------------- C3
\* C3: advance(game), when not paused, makes the first player of the pre-call
\* queue who occupies no other game the occupant, or leaves the game vacant
\* if there is none; the post-call queue holds exactly the pre-call queue's
\* players minus the selected one, none dropped and none duplicated.
C3_AdvanceSelectsFirstAvailable ==
    lastOp.op = "advance" =>
        LET g == lastOp.game
            q == pre[g].queue
            r == games[g].queue
        IN /\ IF AvailableAt(pre, g) = {}
              THEN /\ games[g].now_playing = None
                   /\ Len(r) = Len(q)
                   /\ QueueSet(r) = QueueSet(q)
              ELSE /\ games[g].now_playing = Some(FirstAvailable(pre, g))
                   /\ Len(r) = Len(q) - 1
                   /\ QueueSet(r) = QueueSet(q) \ {FirstAvailable(pre, g)}
           /\ NoRepeat(r)

\* the scan passed over the head of the queue, who stays queued, and selected
\* a later player
C3_Witness ==
    /\ lastOp.op = "advance"
    /\ ~queue_paused
    /\ games[lastOp.game].now_playing # None
    /\ Head(pre[lastOp.game].queue) # Val(games[lastOp.game].now_playing)
    /\ InQueue(games[lastOp.game].queue, Head(pre[lastOp.game].queue))

\* ---------------------------------------------------------------- C4
\* C4: advance(game) preserves the relative order of every pair of players
\* that remain in the queue, so deferred players keep their order and sit
\* ahead of the players that were behind the selected candidate.
C4_AdvanceKeepsOrder ==
    lastOp.op = "advance" =>
        LET q == pre[lastOp.game].queue
            r == games[lastOp.game].queue
        IN \A x, y \in QueueSet(r) \cap QueueSet(q) :
               (x # y /\ IndexOf(q, x) < IndexOf(q, y)) => IndexOf(r, x) < IndexOf(r, y)

\* two players were deferred, the third was selected and a fourth was behind
C4_Witness ==
    /\ lastOp.op = "advance"
    /\ Len(pre[lastOp.game].queue) = 4
    /\ games[lastOp.game].now_playing = Some(pre[lastOp.game].queue[3])
    /\ Len(games[lastOp.game].queue) = 3

\* ---------------------------------------------------------------- C5
\* C5: a skip of pending occupant A, when some queued player occupies no
\* other game, makes the first such player the occupant, puts A at queue
\* position 0, raises A's skip count by exactly 1, and no other player enters
\* or leaves the game.
C5_SkipKeepsPosition ==
    [][(lastOp'.op = "skip" /\ steps' = steps + 1) =>
         LET g == lastOp'.game
             a == lastOp'.player
         IN (Pending(games, g, a) /\ AvailableAt(games, g) # {}) =>
               /\ games'[g].now_playing = Some(FirstAvailable(games, g))
               /\ games'[g].queue # <<>>
               /\ Head(games'[g].queue) = a
               /\ DictGet(games'[g].skip_counts, a, 0)
                     = DictGet(games[g].skip_counts, a, 0) + 1
               /\ Members(games', g) = Members(games, g)
               /\ Len(games'[g].queue) = Len(games[g].queue)]_vars

\* ---------------------------------------------------------------- C6
\* C6: a skip of pending occupant A, when the queue is empty or holds only
\* players who occupy another game, removes A from the game (neither occupant
\* nor queued), leaves the game vacant and the queue unchanged, and removes
\* A's skip-count entry.
C6_SkipDeparts ==
    \A g \in DOMAIN games, a \in Players :
        (Pending(games, g, a) /\ AvailableAt(games, g) = {}) =>
            LET after == skip_current_player(games, g)[g]
            IN /\ after.now_playing = None
               /\ ~InQueue(after.queue, a)
               /\ after.queue = games[g].queue
               /\ a \notin DOMAIN after.skip_counts

\* ---------------------------------------------------------------- C7
\* C7: an accept takes effect only if the player is the occupant, the turn is
\* not yet accepted, turn_started_at is set and the elapsed time is strictly
\* below the timeout; at or after the boundary the accept changes nothing and
\* the occupant stays subject to the timeout skip of the next check.
C7_AcceptOnlyInTime ==
    lastOp.op = "accept" =>
        LET g == lastOp.game
            p == lastOp.player
            b == pre[g]
        IN /\ games # pre =>
                 /\ Pending(pre, g, p)
                 /\ b.turn_started_at # None
                 /\ now - Val(b.turn_started_at) < TURN_TIMEOUT_SECONDS
           /\ ( /\ Pending(pre, g, p)
                /\ b.turn_started_at # None
                /\ now - Val(b.turn_started_at) >= TURN_TIMEOUT_SECONDS )
                 => (games = pre /\ turn_expired(games, g))

\* the pending occupant sent the accept exactly at the timeout boundary
C7_Witness ==
    /\ lastOp.op = "accept"
    /\ Pending(pre, lastOp.game, lastOp.player)
    /\ now - Val(pre[lastOp.game].turn_started_at) = TURN_TIMEOUT_SECONDS
    /\ Pending(games, lastOp.game, lastOp.player)

\* ---------------------------------------------------------------- C8
\* C8: from a pre-state in which a game holds a pending occupant whose elapsed
\* time is at least the timeout, the timeout check produces the same occupants,
\* queues and skip counts as a manual skip by that occupant.
C8_TimeoutSameAsSkip ==
    \A g \in DOMAIN games :
        (Expired(games) = {g}) =>
            Outcome(check_expired_turns(games)) = Outcome(skip_current_player(games, g))

\* ---------------------------------------------------------------- C9
\* C9 as stated: with several expired pending turns, every order of visiting
\* the games yields the occupants, queues and skip counts the check produced.
C9_AnyOrder ==
    (lastOp.op = "index" /\ Cardinality(Expired(pre)) >= 2) =>
        \A o \in Perms(DOMAIN pre) : Outcome(check_expired_in(pre, o)) = Outcome(games)

\* C9: when no game with an expired pending turn shares a player (as occupant
\* or queued) with any other game, every order of visiting the games yields
\* the occupants, queues and skip counts the check produced.
C9_OrderFreeWhenIsolated ==
    (lastOp.op = "index" /\ Isolated(pre)) =>
        \A o \in Perms(DOMAIN pre) : Outcome(check_expired_in(pre, o)) = Outcome(games)

\* the check found two expired pending turns in games that share no player
\* with any other game, and resolved both
C9_Witness ==
    /\ lastOp.op = "index"
    /\ Isolated(pre)
    /\ Cardinality(Expired(pre)) >= 2
    /\ \A g \in Expired(pre) : games[g].now_playing # pre[g].now_playing

\* ---------------------------------------------------------------- C10
\* C10: an accepted occupant is displaced by no timeout check, manual skip or
\* leave, whatever time has elapsed; only finish, logout, admin kick and
\* admin force-assign end an accepted turn.
C10_AcceptedTurnKept ==
    [][\A g \in DOMAIN games :
          ( /\ games[g].now_playing # None
            /\ games[g].turn_accepted
            /\ (games'[g].now_playing # games[g].now_playing \/ ~games'[g].turn_accepted) )
             => lastOp'.op \in {"done", "logout", "admin_kick", "admin_set_playing"}]_vars

\* a timeout check ran, unpaused, while an accepted turn was a full timeout old
C10_Witness ==
    /\ lastOp.op = "index"
    /\ ~queue_paused
    /\ \E g \in DOMAIN games :
          /\ games[g].now_playing # None
          /\ games[g].turn_accepted
          /\ now - Val(games[g].turn_started_at) >= TURN_TIMEOUT_SECONDS

\* ---------------------------------------------------------------- C11
\* the fields of a turn: occupant, queue, turn_started_at, turn_accepted,
\* play_started_at and skip counts of every game
TurnFields(G) ==
    [g \in DOMAIN G |-> <<G[g].now_playing, G[g].queue, G[g].turn_started_at,
                          G[g].turn_accepted, G[g].play_started_at, G[g].skip_counts>>]

\* C11: while the process is paused, advance(game) and checkExpiredTurns()
\* leave the occupant, queue, turn_started_at, turn_accepted, play_started_at
\* and skip counts of every game as they were.
C11_PausedNoOp ==
    (lastOp.op \in {"advance", "index"} /\ queue_paused) => TurnFields(games) = TurnFields(pre)

\* advance was called, paused, on a vacant game with a waiting queue while
\* another game held a pending turn a full timeout old
C11_Witness ==
    /\ lastOp.op = "advance"
    /\ queue_paused
    /\ pre[lastOp.game].now_playing = None
    /\ pre[lastOp.game].queue # <<>>
    /\ Expired(pre) # {}

\* ---------------------------------------------------------------- C12
\* C12: when an occupant accepted at time T while the process ran, the
\* process was paused for D seconds in all since then and runs again, a
\* finish at time F adds F - T - D to the occupant's total_play_time.
C12_PauseExcluded ==
    [][(lastOp'.op = "done" /\ steps' = steps + 1) =>
         LET g == lastOp'.game
             p == lastOp'.player
         IN ( /\ games[g].now_playing = Some(p)
              /\ games[g].turn_accepted
              /\ hist[g].clean
              /\ ~queue_paused ) =>
               DictGet(games'[g].total_play_time, p, 0)
                  - DictGet(games[g].total_play_time, p, 0)
                  = now - hist[g].T - hist[g].D]_vars

\* a finish, unpaused, of a first turn that was accepted after the start,
\* was paused for some time and lasted longer than the pause
C12_Witness ==
    /\ lastOp.op = "done"
    /\ ~queue_paused
    /\ hist[lastOp.game].clean
    /\ hist[lastOp.game].T > 0
    /\ hist[lastOp.game].D > 0
    /\ DictGet(games[lastOp.game].total_play_time, lastOp.player, 0)
          = now - hist[lastOp.game].T - hist[lastOp.game].D
    /\ now - hist[lastOp.game].T - hist[lastOp.game].D > 0

\* ---------------------------------------------------------------- C13
\* C13: in every reachable state of every game, turn_accepted implies that
\* play_started_at is set.
C13_AcceptedHasClock ==
    \A g \in DOMAIN games : games[g].turn_accepted => games[g].play_started_at # None

\* a turn was just accepted by its occupant
C13_Witness ==
    /\ lastOp.op = "accept"
    /\ games[lastOp.game].now_playing = Some(lastOp.player)
    /\ games[lastOp.game].turn_accepted

\* ---------------------------------------------------------------- C14
\* C14: in every reachable state of every game without an occupant,
\* turn_started_at is none, turn_accepted is false and play_started_at is none.
C14_VacantIsReset ==
    \A g \in DOMAIN games :
        games[g].now_playing = None =>
            /\ games[g].turn_started_at = None
            /\ ~games[g].turn_accepted
            /\ games[g].play_started_at = None

\* a finish of a played turn left the game without an occupant
C14_Witness ==
    /\ lastOp.op = "done"
    /\ games[lastOp.game].now_playing = None
    /\ DictGet(games[lastOp.game].session_counts, lastOp.player, 0) > 0

\* ---------------------------------------------------------------- C15
\* C15: in every reachable state, no game's queue contains the same player
\* twice.
C15_NoDuplicates == \A g \in DOMAIN games : NoRepeat(games[g].queue)

\* ---------------------------------------------------------------- C16
\* C16: a successful accept sets turn_accepted, sets play_started_at to the
\* current time, raises the player's session count by exactly 1 and removes
\* the player's skip count; the occupant, the queue, every other field and
\* every other game stay as they were.
C16_AcceptEffect ==
    [][(lastOp'.op = "accept" /\ steps' = steps + 1) =>
         LET g == lastOp'.game
             p == lastOp'.player
         IN /\ games'[g].now_playing = Some(p)
            /\ games'[g].now_playing = games[g].now_playing
            /\ games'[g].queue = games[g].queue
            /\ games'[g].turn_accepted
            /\ games'[g].play_started_at = Some(now)
            /\ DictGet(games'[g].session_counts, p, 0)
                  = DictGet(games[g].session_counts, p, 0) + 1
            /\ \A q \in (DOMAIN games[g].session_counts) \ {p} :
                  DictGet(games'[g].session_counts, q, 0) = games[g].session_counts[q]
            /\ DOMAIN games'[g].skip_counts = (DOMAIN games[g].skip_counts) \ {p}
            /\ \A q \in DOMAIN games'[g].skip_counts :
                  games'[g].skip_counts[q] = games[g].skip_counts[q]
            /\ games'[g].turn_started_at = games[g].turn_started_at
            /\ games'[g].total_play_time = games[g].total_play_time
            /\ \A h \in DOMAIN games : h # g => games'[h] = games[h]
            /\ UNCHANGED <<queue_paused, pause_started_at>>]_vars

\* an accept by an occupant who had been skipped before, with others waiting
C16_Witness ==
    /\ lastOp.op = "accept"
    /\ lastOp.skips > 0
    /\ games[lastOp.game].turn_accepted
    /\ games[lastOp.game].queue # <<>>
    /\ lastOp.player \notin DOMAIN games[lastOp.game].skip_counts

\* ---------------------------------------------------------------- C17
\* C17: a finish of game g by occupant p with an empty queue starts a
\* cooldown that ends COURTESY_COOLDOWN_SECONDS later; every join of g by p
\* made before it ends leaves the table unchanged; a join made once it has
\* ended, a join of another game by p and a join of g by another player put
\* the player into the game.
C17_CourtesyCooldown ==
    /\ lastOp.op = "join" =>
          LET p == lastOp.player
              g == lastOp.game
              blocked == <<p, g>> \in DOMAIN hist /\ now < hist[<<p, g>>]
          IN /\ blocked => (games = pre /\ courtesy_cooldowns = hist)
             /\ (~blocked /\ p \notin Members(pre, g)) => p \in Members(games, g)
    /\ lastOp.op = "done" =>
          LET p == lastOp.player
              g == lastOp.game
          IN (pre[g].now_playing = Some(p) /\ pre[g].queue = <<>>) =>
                /\ <<p, g>> \in DOMAIN courtesy_cooldowns
                /\ courtesy_cooldowns[<<p, g>>] = now + COURTESY_COOLDOWN_SECONDS

\* a player joined, unpaused, the vacant game whose cooldown has half of its
\* time left, and was turned away
C17_Witness ==
    /\ lastOp.op = "join"
    /\ ~queue_paused
    /\ <<lastOp.player, lastOp.game>> \in DOMAIN hist
    /\ hist[<<lastOp.player, lastOp.game>>] - now = COURTESY_COOLDOWN_SECONDS \div 2
    /\ pre[lastOp.game].now_playing = None
    /\ pre[lastOp.game].queue = <<>>
    /\ games = pre

\* ---------------------------------------------------------------- C18
\* C18: a finish takes effect only when the player is the game's occupant;
\* it adds exactly now - play_started_at to the player's total_play_time when
\* play_started_at is set and nothing when the turn was never accepted, and
\* leaves every other total unchanged, so totals accumulate across sessions.
C18_FinishCredits ==
    [][(lastOp'.op = "done" /\ steps' = steps + 1) =>
         LET g == lastOp'.game
             p == lastOp'.player
         IN /\ games[g].now_playing = Some(p)
            /\ DictGet(games'[g].total_play_time, p, 0)
                  - DictGet(games[g].total_play_time, p, 0)
                  = IF games[g].play_started_at # None
                    THEN now - Val(games[g].play_started_at)
                    ELSE 0
            /\ \A q \in PlayPlayers \ {p} :
                  DictGet(games'[g].total_play_time, q, 0)
                     = DictGet(games[g].total_play_time, q, 0)
            /\ \A h \in DOMAIN games :
                  h # g => games'[h].total_play_time = games[h].total_play_time]_vars

\* a finish of a player's second played session of the game: the total is
\* larger than the time played since the last accept
C18_Witness ==
    /\ lastOp.op = "done"
    /\ DictGet(games[lastOp.game].session_counts, lastOp.player, 0) >= 2
    /\ hist[lastOp.game].clean
    /\ hist[lastOp.game].D = 0
    /\ now - hist[lastOp.game].T > 0
    /\ DictGet(games[lastOp.game].total_play_time, lastOp.player, 0)
          > now - hist[lastOp.game].T

\* ---------------------------------------------------------------- C19
\* the recorded finish or skip met its precondition
RippleActed ==
    /\ lastOp.op \in {"done", "skip"}
    /\ ~queue_paused
    /\ pre[lastOp.game].now_playing = Some(lastOp.player)
    /\ lastOp.op = "skip" => ~pre[lastOp.game].turn_accepted

\* on completion no game other than g is vacant with a waiting player who
\* occupies no game
SweptOthers(g) ==
    \A h \in DOMAIN games :
        (h # g /\ games[h].now_playing = None) =>
            \A i \in 1..Len(games[h].queue) : Occupied(games, games[h].queue[i]) # {}

\* when g's queue held a player occupying no other game, the head-most such
\* player is g's occupant on completion
HeadmostTakesOver(g) ==
    AvailableAt(pre, g) # {} => games[g].now_playing = Some(FirstAvailable(pre, g))

\* the games other than g that were vacant with p waiting behind none but
\* occupants of other games
OpenFor(g, p) ==
    {h \in DOMAIN pre :
        /\ h # g
        /\ pre[h].now_playing = None
        /\ InQueue(pre[h].queue, p)
        /\ \A i \in 1..(IndexOf(pre[h].queue, p) - 1) :
              \E k \in DOMAIN pre : k # g /\ pre[k].now_playing = Some(pre[h].queue[i])}

PendingAt(h, p) == games[h].now_playing = Some(p) /\ ~games[h].turn_accepted

\* C19 as stated: the freed player is the pending occupant of every other
\* vacant game in whose queue the player is the first available one.
C19_RippleEveryGame ==
    RippleActed =>
        /\ SweptOthers(lastOp.game)
        /\ HeadmostTakesOver(lastOp.game)
        /\ \A h \in OpenFor(lastOp.game, lastOp.player) : PendingAt(h, lastOp.player)

\* positions of h's queue before the operation whose player occupies no
\* game other than h once the operation has completed
FreeOnCompletion(h) ==
    {i \in 1..Len(pre[h].queue) : FreeElsewhere(games, h, pre[h].queue[i])}

\* C19: when not paused, a finish or skip on game G advances every other
\* vacant game in the same operation: on completion such a game has as its
\* pending occupant the head-most player of its queue who occupies no other
\* game on completion (the freed player included), and stays vacant only
\* when every waiting player occupies a game; and when G's queue held an
\* available player the head-most one is G's occupant.
C19_Ripple ==
    RippleActed =>
        /\ SweptOthers(lastOp.game)
        /\ HeadmostTakesOver(lastOp.game)
        /\ \A h \in DOMAIN pre :
              (h # lastOp.game /\ pre[h].now_playing = None) =>
                  IF FreeOnCompletion(h) = {}
                  THEN games[h].now_playing = None
                  ELSE LET i == CHOOSE i \in FreeOnCompletion(h) :
                                    \A j \in FreeOnCompletion(h) : i <= j
                       IN PendingAt(h, pre[h].queue[i])

\* a finish handed the game to the next player and made the finishing player
\* the pending occupant of another game that had been vacant
C19_Witness ==
    /\ RippleActed
    /\ lastOp.op = "done"
    /\ games[lastOp.game].now_playing # None
    /\ \E h \in OpenFor(lastOp.game, lastOp.player) : PendingAt(h, lastOp.player)

\* ---------------------------------------------------------------- C20
\* the precondition of request op of player p for the game named g fails
Refused(op, p, g) ==
    \/ g \notin DOMAIN games
    \/ /\ op \in {"accept", "skip"}
       /\ games[g].now_playing # Some(p) \/ games[g].turn_accepted
    \/ /\ op = "done"
       /\ games[g].now_playing # Some(p)
    \/ /\ op = "leave"
       /\ ~InQueue(games[g].queue, p)
       /\ ~Pending(games, g, p)
    \/ /\ op = "join"
       /\ \/ InQueue(games[g].queue, p)
          \/ games[g].now_playing = Some(p)
          \/ /\ <<p, g>> \in DOMAIN courtesy_cooldowns
             /\ courtesy_cooldowns[<<p, g>>] > now

\* C20: a request whose precondition does not hold (accept by a non-occupant
\* or on an accepted turn, skip by a non-occupant or after acceptance, finish
\* by a non-occupant, leave by a player neither queued nor pending, join by a
\* player already queued, already occupant or under an active cooldown, any
\* request naming an unknown game) leaves the games and the pause state
\* unchanged.
C20_RefusedIsNoOp ==
    [][(lastOp'.op # "pre" /\ Refused(lastOp'.op, lastOp'.player, lastOp'.game))
           => UNCHANGED <<games, queue_paused, pause_started_at>>]_vars

\* a join of a vacant game was refused under an active cooldown and nothing
\* changed
C20_Witness ==
    /\ lastOp.op = "join"
    /\ lastOp.game \in DOMAIN games
    /\ <<lastOp.player, lastOp.game>> \in DOMAIN hist
    /\ hist[<<lastOp.player, lastOp.game>>] > now
    /\ pre[lastOp.game].now_playing = None
    /\ games = pre

\* ---------------------------------------------------------------- C21
\* C21: skip_counts of a game holds an entry only for a player who is in the
\* game's queue or its occupant, and never for an occupant who has accepted.
C21_SkipCountsOnlyForMembers ==
    \A g \in DOMAIN games :
        \A p \in DOMAIN games[g].skip_counts :
            /\ InQueue(games[g].queue, p) \/ games[g].now_playing = Some(p)
            /\ ~(games[g].now_playing = Some(p) /\ games[g].turn_accepted)

\* ---------------------------------------------------------------- C22
\* C22: after the administrator's force-assign of player P on game G, P is
\* the occupant of G with turn_accepted true and both clocks set, P is not in
\* G's queue and P is the occupant of no other game.
C22_ForceAssignKeepsInvariants ==
    lastOp.op = "admin_set_playing" =>
        /\ games[lastOp.game].now_playing = Some(lastOp.player)
        /\ games[lastOp.game].turn_accepted
        /\ games[lastOp.game].turn_started_at # None
        /\ games[lastOp.game].play_started_at # None
        /\ ~InQueue(games[lastOp.game].queue, lastOp.player)
        /\ Occupied(games, lastOp.player) = {lastOp.game}

\* ---------------------------------------------------------------- C23
\* C23: after a logout of player p, p is in no game's queue and is the
\* occupant of no game, paused or not.
C23_LogoutRemovesEverywhere ==
    lastOp.op = "logout" =>
        \A g \in DOMAIN games :
            /\ ~InQueue(games[g].queue, lastOp.player)
            /\ games[g].now_playing # Some(lastOp.player)

\* ---------------------------------------------------------------- C24
\* the names equal to the reserved name once trimmed and lower-cased
AdminSpellings == {"admin", "Admin", " ADMIN "}

\* C24: a pause toggle or administrator's operation requested under a name
\* that is not the reserved name after trimming and lower-casing, or by an
\* anonymous caller, leaves the paused flag and the games unchanged.
C24_OnlyAdminTakesEffect ==
    [][(lastOp'.op # "pre" /\ lastOp'.requester \notin AdminSpellings)
           => UNCHANGED <<games, queue_paused, pause_started_at>>]_vars

\* a kick of an occupant requested under a name that only resembles the
\* reserved one changed nothing
C24_Witness ==
    /\ lastOp.op = "admin_kick"
    /\ lastOp.requester = "administrator"
    /\ pre[lastOp.game].now_playing # None
    /\ games = pre

\* ---------------------------------------------------------------- C25
\* the requests inside the lock
InsideLock(h) == {r \in InFlight : h.pc[r] \in {"locked", "saving"}}

\* C25: at most one request is inside the lock and it is the holder; the
\* games and the pause state change only in the step in which the holder
\* runs its handler's reads and writes, and not at all while the holder
\* awaits its saves or while no request holds the lock.
C25_MutationsUnderLock ==
    [][/\ InsideLock(hist') \subseteq {hist'.lock}
       /\ <<games, queue_paused, pause_started_at>>'
              # <<games, queue_paused, pause_started_at>>
             => /\ hist.lock # 0
                /\ hist.pc[hist.lock] = "locked"
                /\ hist'.pc[hist.lock] = "saving"
                /\ hist'.lock = hist.lock]_vars

\* a request awaits its saves after changing the games while the other
\* request waits for the lock
C25_Witness ==
    /\ DOMAIN hist = {"lock", "pc", "req"}
    /\ \E r \in InFlight, w \in InFlight :
          /\ hist.lock = r
          /\ hist.pc[r] = "saving"
          /\ hist.pc[w] = "waiting"
          /\ games[GAME_NAMES[1]].now_playing # None

\* ---------------------------------------------------------------- C26
\* C26: a restart after a completed request loads the state the request
\* left: every field of every game, the paused flag and pause_started_at.
C26_RestartRoundTrip ==
    [][lastOp'.op = "restart"
           => UNCHANGED <<games, queue_paused, pause_started_at>>]_vars

\* ---------------------------------------------------------------- C27
\* C27: after a finish by the occupant p, gacha_pulls_given[p] is the whole
\* number of pull periods in p's play time summed over the games, and the
\* pulls awarded by the finish are that entitlement less the pulls granted
\* before.
C27_PullsMatchPlayTime ==
    [][(lastOp'.op = "done" /\ games[lastOp'.game].now_playing = Some(lastOp'.player))
           => LET p == lastOp'.player
                  entitled == sum_play_time(games', p) \div (GACHA_MINUTES_PER_PULL * 60)
              IN /\ DictGet(gacha_pulls_given', p, 0) = entitled
                 /\ DictGet(gacha_pulls_given', p, 0) - DictGet(gacha_pulls_given, p, 0)
                       = entitled - DictGet(gacha_pulls_given, p, 0)]_vars

\* ---------------------------------------------------------------- C28
\* the recorded join was made while not paused by a player who was neither
\* queued at the game nor its occupant and had no active cooldown for it
JoinActed ==
    /\ lastOp.op = "join"
    /\ ~queue_paused
    /\ ~InQueue(pre[lastOp.game].queue, lastOp.player)
    /\ pre[lastOp.game].now_playing # Some(lastOp.player)
    /\ <<lastOp.player, lastOp.game>> \in DOMAIN hist
          => hist[<<lastOp.player, lastOp.game>>] <= now

\* C28: such a join of a vacant game by a player who occupies no game, with
\* no available player queued ahead, makes the player the pending occupant
\* at once (turn_accepted false, turn_started_at = now) and leaves the queue
\* as it was; such a join of an occupied game appends the player at the tail
\* of the queue and leaves the occupant and the turn as they were.  The
\* other games are not touched.
C28_JoinSeatsOrAppends ==
    JoinActed =>
        LET g == lastOp.game
            p == lastOp.player
        IN /\ (/\ pre[g].now_playing = None
               /\ Occupied(pre, p) = {}
               /\ AvailableAt(pre, g) = {})
              => /\ games[g].now_playing = Some(p)
                 /\ ~games[g].turn_accepted
                 /\ games[g].turn_started_at = Some(now)
                 /\ games[g].queue = pre[g].queue
           /\ pre[g].now_playing # None
              => games[g] = [pre[g] EXCEPT !.queue = Append(pre[g].queue, p)]
           /\ \A h \in DOMAIN games : h # g => games[h] = pre[h]

\* a join of a vacant game whose only waiting player was occupied elsewhere
\* seated the joining player past that player
C28_Witness ==
    /\ JoinActed
    /\ pre[lastOp.game].now_playing = None
    /\ pre[lastOp.game].queue # <<>>
    /\ games[lastOp.game].now_playing = Some(lastOp.player)
    /\ games[lastOp.game].queue = pre[lastOp.game].queue

\* ---------------------------------------------------------------- C29
\* the sequence q without its i-th element
WithoutAt(q, i) == SubSeq(q, 1, i - 1) \o SubSeq(q, i + 1, Len(q))

SwapAllowed(q, p, target) ==
    /\ InQueue(q, p)
    /\ InQueue(q, target)
    /\ IndexOf(q, target) > IndexOf(q, p)

\* q with the players at positions i and j exchanged
Exchanged(q, i, j) ==
    [k \in 1..Len(q) |-> IF k = i THEN q[j] ELSE IF k = j THEN q[i] ELSE q[k]]

\* r holds exactly the players of q, each once
PermutationOf(r, q) ==
    /\ Len(r) = Len(q)
    /\ \A i \in 1..Len(q) : Cardinality({k \in 1..Len(r) : r[k] = q[i]}) = 1

\* C30: a swap on a game exchanges the positions of the requester and the
\* target when both are queued there and the target is behind the requester,
\* and leaves the queue as it was otherwise; either way the queue is a
\* permutation of the old one, the occupant and every other field of every
\* game are unchanged, and the requester is at no earlier position.
C30_SwapOnlyBackwards ==
    (lastOp.op = "swap" /\ lastOp.game \in DOMAIN games) =>
        LET g == lastOp.game
            p == lastOp.player
            t == lastOp.target
            q == pre[g].queue
        IN /\ games[g].queue =
                 IF SwapAllowed(q, p, t)
                 THEN Exchanged(q, IndexOf(q, p), IndexOf(q, t))
                 ELSE q
           /\ PermutationOf(games[g].queue, q)
           /\ games[g].now_playing = pre[g].now_playing
           /\ games = [pre EXCEPT ![g].queue = games[g].queue]
           /\ InQueue(q, p) => IndexOf(games[g].queue, p) >= IndexOf(q, p)

\* the first of three queued players swapped with the last one, and a swap
\* naming a target ahead of the requester left the queue alone
C30_Witness ==
    /\ lastOp.op = "swap"
    /\ lastOp.game \in DOMAIN games
    /\ LET q == pre[lastOp.game].queue
       IN /\ Len(q) = MaxSwapQueue
          /\ q[1] = lastOp.player
          /\ q[MaxSwapQueue] = lastOp.target
          /\ games[lastOp.game].queue[MaxSwapQueue] = lastOp.player
          /\ games[lastOp.game].queue[1] = lastOp.target
          /\ games[lastOp.game].queue[2] = q[2]

\* ---------------------------------------------------------------- C31
\* C31: in every reachable state in which the queue is not paused, no game
\* is vacant while its queue holds a player who occupies no game.
C31_WorkConserving ==
    ~queue_paused =>
        \A g \in DOMAIN games :
            games[g].now_playing = None =>
                \A i \in 1..Len(games[g].queue) :
                    \E h \in DOMAIN games :
                        games[h].now_playing = Some(games[g].queue[i])

\* ---------------------------------------------------------------- C32
\* C32: after the occupant p of game g posts done, p is no longer the
\* occupant of g, whether the queue is paused or not.
C32_FinishRelinquishes ==
    [][\A g \in DOMAIN games, p \in Players :
          (/\ games[g].now_playing = Some(p)
           /\ lastOp' = [op |-> "done", game |-> g, player |-> p])
          => games'[g].now_playing # Some(p)]_vars

\* ---------------------------------------------------------------- C33
\* C33: a finish, kick or forced assignment never adds the elapsed time of a
\* play session whose time an earlier request has added already.
C33_CreditedOnce ==
    [][\A g \in DOMAIN games :
          (/\ Credits(lastOp', g)
           /\ games'[g].total_play_time # games[g].total_play_time)
          => ~hist[g]]_vars

\* ---------------------------------------------------------------- C34
\* C34: no request lowers any player's total_play_time in any game.
C34_PlayTimeNeverDecreases ==
    [][\A g \in DOMAIN games, p \in PlayPlayers :
          DictGet(games'[g].total_play_time, p, 0)
              >= DictGet(games[g].total_play_time, p, 0)]_vars

\* ---------------------------------------------------------------- C35
\* the unpaused seconds the turn held at game g has lasted
UnpausedElapsed(g) == now - Val(games[g].turn_started_at) - hist[g]

\* C35: paused time does not count against a pending turn: while fewer than
\* TURN_TIMEOUT_SECONDS unpaused seconds of a pending turn have passed, the
\* occupant's accept is still in time, during a pause as well, and once the
\* queue runs again a poll does not time the turn out.
C35_PauseKeepsWindow ==
    \A g \in DOMAIN games :
        (/\ games[g].now_playing # None
         /\ ~games[g].turn_accepted
         /\ games[g].turn_started_at # None
         /\ UnpausedElapsed(g) < TURN_TIMEOUT_SECONDS)
        => /\ turn_in_time(now - Val(games[g].turn_started_at))
           /\ ~queue_paused => ~turn_expired(games, g)

\* ---------------------------------------------------------------- C36
\* p waits in the queue of g and occupies no game
WaitsFree(p, g) ==
    /\ InQueue(games[g].queue, p)
    /\ \A h \in DOMAIN games : games[h].now_playing # Some(p)

\* C36: with the queue running and every occupant eventually skipping or
\* finishing, a player who waits in a game's queue and occupies no game
\* eventually becomes that game's occupant, unless the player leaves the
\* queue or comes to occupy another game first.
C36_NoStarvation ==
    \A g \in FirstGames(NumStarveGames), p \in Players :
        WaitsFree(p, g) ~> (games[g].now_playing = Some(p) \/ ~WaitsFree(p, g))

\* ---------------------------------------------------------------- C37
\* C37: when the state is polled again and again and no pause lasts forever,
\* a game held by a pending occupant whose timeout has passed eventually is
\* not held by an expired pending turn any more.
C37_ExpiredTurnResolved ==
    \A g \in FirstGames(NumGames) :
        turn_expired(games, g) ~> ~turn_expired(games, g)

\* a poll found a pending turn whose timeout had passed and took the turn
\* from its occupant, who went back into the queue with a skip counted
C37_Witness ==
    /\ lastOp.op = "index"
    /\ \E g \in DOMAIN games :
          /\ turn_expired(pre, g)
          /\ games[g].now_playing # pre[g].now_playing
          /\ DictGet(games[g].skip_counts, Val(pre[g].now_playing), 0) = 1

\* ---------------------------------------------------------------- C38
\* C38: a player whose logout has completed, and who has not logged in
\* again, is in no queue and occupies no game, whatever requests were in
\* flight when the logout ran.
C38_LogoutNotUndone ==
    \A p \in PlayPlayers :
        ~has_session(hist, p) =>
            \A g \in DOMAIN games :
                /\ ~InQueue(games[g].queue, p)
                /\ games[g].now_playing # Some(p)

====
